---- MODULE Spec2Model ----
(***************************************************************************)
(* A model of docspec (the API object tree, its hierarchy synchronizer,   *)
(* its serializer and its filtering traversal) and of the docspec-python  *)
(* extractor (argument classification, class parsing).                    *)
(*                                                                         *)
(* The module holds several specifications over one set of variables:     *)
(*   SpecTree    loaders, edits of members lists, sync_hierarchy           *)
(*   SpecFilter  filter_visit, one action per step of its loop             *)
(* Each specification leaves the variables of the other parts unchanged.   *)
(***************************************************************************)
EXTENDS Integers, Sequences, FiniteSets, TLC

(***************************************************************************)
(* Bounds                                                                  *)
(***************************************************************************)
\* number of ApiObject instances that can exist
MaxNodes == 4
\* number of edits of members lists made on one tree
MaxEdits == 2

Ids == 1..MaxNodes
\* Python's None (also: no object)
None == 0

VARIABLES
  \* --- the heap of ApiObject instances -------------------------------
  kind,      \* kind[i]: the class of object i, "none" when i is not allocated
  members,   \* members[i]: HasMembers.members of object i (a list of objects)
  parent,    \* parent[i]: ApiObject._parent of object i (None or an object)
  root,      \* the Module a loader returned (None before any load)
  op,        \* the operation that acted last
  edits,     \* edits of members lists made so far
  syncedBefore, \* whether the tree was synchronized before the last operation
  \* --- one filter_visit call ------------------------------------------
  objects,   \* the list the caller passes to filter_visit (mutated in place)
  stack,     \* the activations of filter_visit, the innermost last
  trace,     \* the objects the predicate was applied to, in order
  rejected,  \* the predicate: the objects for which it returns False
  order,     \* the order argument
  members0,  \* the members lists when the running call started
  objects0,  \* the caller's list when the running call started
  runs,      \* calls of filter_visit completed so far
  fpc,       \* "idle", "running" or "done"
  raised,    \* the exception the last call raised, "none" if it returned
  \* --- one Parser.parse_parameters call --------------------------------
  sig,       \* the parameter list that was written in the source
  children,  \* arglist.children: the nodes of the parameter list
  index,     \* the position of the SequenceWalker over children
  result,    \* the Arguments collected so far
  argtype,   \* the type given to the next plain argument
  ppc,       \* "start", "loop", "done" or "raised"
  \* --- one class definition, parsed by parser.py or by parser2.py -------
  cparser,   \* the parser that runs: "parser" or "parser2"
  ckeyword,  \* the value of the metaclass= keyword, NoText if there is none
  cbody,     \* the statements of the class's immediate body
  cpos,      \* parse_classdef: the statement of the suite that comes next
  metaclass, \* the metaclass found so far
  cmembers,  \* class_.members: the members emitted so far
  cpc,       \* "start", "suite" or "done"
  \* --- one dump_module / load_module round ------------------------------
  smodule,   \* the Module that is dumped
  swire,     \* the plain structured data dump_module returned
  sloaded,   \* the Module load_module returned
  sredump,   \* the data dump_module returned for the loaded Module
  spc,       \* "built", "dumped", "old", "foreign", "loaded", "raised" or "redumped"
  \* --- one Parser.parse_import call (parser.py) --------------------------
  istmt,     \* the import statement node
  iprefix,   \* the module text in front of "import" of a from-import
  ipos,      \* position of the generator in the statement's names
  iresult,   \* the Indirections yielded so far
  ipc,       \* "start", "import_name", "import_from" or "done"
  \* --- one Parser.parse call on a block of statements (parser.py) --------
  dblock,    \* the statements of the module, with their comments
  dmodule,   \* the docstring of the module
  dpos,      \* position of the loop over the statements
  dmembers,  \* the members appended so far
  dpc,       \* "start", "loop", "done" or the exception raised
  \* --- one batch of source units (load_python_modules, parse_modules) ----
  bunits,    \* the state of each unit of the batch
  bloader,   \* the loader that is called
  braise,    \* the argument raise_ of load_python_modules
  bpos,      \* position of the running loop
  bfiles,    \* the units collected by the first loop
  byielded,  \* the Modules yielded so far
  berror,    \* the exception that ended the generator
  bpc,       \* "start", "yield", "done" or "raised"
  \* --- the objects of a tree in the hands of a caller --------------------
  wheld,     \* the objects the caller holds a reference to
  walive,    \* the objects that have not been destroyed
  wread,     \* the outcome of the last read of parent or path
  wpc,       \* "start", "held" or "read"
  \* --- a list of Modules written to a stream and read back ---------------
  tmodules,  \* the Modules that are dumped, in order
  tstream,   \* the text written to the target so far
  tpos,      \* the Module that is dumped next
  tcursor,   \* load_modules: the position of the next line in the text
  tloaded,   \* the Modules load_modules yielded so far
  tpc,       \* "dump", "load", "done" or "raised"
  \* --- two threads that call Parser.parse --------------------------------
  hparser,   \* hparser[t]: the Parser object thread t calls parse on
  hsize,     \* hsize[t]: the number of declarations in the file of thread t
  hfilename, \* hfilename[p]: the attribute filename of Parser object p
  hmodule,   \* hmodule[t]: the Module the call of thread t builds
  hpc,       \* hpc[t]: "call", "module", "members" or "returned"
  \* --- the docstring of one block (parser.py) ----------------------------
  kowner,    \* what the block belongs to: "module", "class" or "function"
  kform,     \* "module", "suite", or "inline" for a body on the line of its header
  kblock,    \* the statements of the block
  koption,   \* options.treat_singleline_comment_blocks_as_docstrings
  kdocstring, \* the docstring given to the owner of the block
  kpc        \* "start" or "done"

treeVars == <<kind, members, parent, root, op, edits, syncedBefore>>

treeVarsButMembers == <<kind, parent, root, op, edits, syncedBefore>>

filterVars == <<objects, stack, trace, rejected, order, members0, objects0, runs, fpc, raised>>

paramVars == <<sig, children, index, result, argtype, ppc>>

classVars == <<cparser, ckeyword, cbody, cpos, metaclass, cmembers, cpc>>

serialVars == <<smodule, swire, sloaded, sredump, spc>>

importVars == <<istmt, iprefix, ipos, iresult, ipc>>

docVars == <<dblock, dmodule, dpos, dmembers, dpc>>

batchVars == <<bunits, bloader, braise, bpos, bfiles, byielded, berror, bpc>>

weakVars == <<wheld, walive, wread, wpc>>

streamVars == <<tmodules, tstream, tpos, tcursor, tloaded, tpc>>

threadVars == <<hparser, hsize, hfilename, hmodule, hpc>>

blockVars == <<kowner, kform, kblock, koption, kdocstring, kpc>>

moreVars == <<streamVars, threadVars, blockVars>>

extraVars == <<importVars, docVars, batchVars, weakVars, moreVars>>

parserVars == <<paramVars, classVars, serialVars, extraVars>>

restOfImport == <<treeVars, filterVars, paramVars, classVars, serialVars, docVars, batchVars, weakVars, moreVars>>

restOfDoc == <<treeVars, filterVars, paramVars, classVars, serialVars, importVars, batchVars, weakVars, moreVars>>

restOfBatch == <<treeVars, filterVars, paramVars, classVars, serialVars, importVars, docVars, weakVars, moreVars>>

restOfStream == <<treeVars, filterVars, paramVars, classVars, serialVars,
                  importVars, docVars, batchVars, weakVars, threadVars, blockVars>>

restOfThreads == <<treeVars, filterVars, paramVars, classVars, serialVars,
                   importVars, docVars, batchVars, weakVars, streamVars, blockVars>>

restOfBlock == <<treeVars, filterVars, paramVars, classVars, serialVars,
                 importVars, docVars, batchVars, weakVars, streamVars, threadVars>>

restOfWeak == <<filterVars, paramVars, classVars, serialVars, importVars, docVars, batchVars, moreVars>>

vars == <<kind, members, parent, root, op, edits, syncedBefore,
          objects, stack, trace, rejected, order, members0, objects0, runs, fpc, raised,
          sig, children, index, result, argtype, ppc,
          cparser, ckeyword, cbody, cpos, metaclass, cmembers, cpc,
          smodule, swire, sloaded, sredump, spc, extraVars>>

(***************************************************************************)
(* The data model: src/docspec/src/docspec/__init__.py                     *)
(***************************************************************************)
\* the closed set of ApiObject variants
ApiObjectKinds == {"data", "indirection", "function", "class", "module"}

\* the subclasses of HasMembers
HasMembersKinds == {"class", "module"}

\* _MemberType: what a Class may hold
ClassMemberKinds == {"data", "function", "class", "indirection"}

\* _ModuleMemberType: what a Module may hold
ModuleMemberKinds == {"data", "function", "class", "module", "indirection"}

Range(s) == {s[i] : i \in DOMAIN s}

\* "".join(texts)
RECURSIVE Concat(_)
Concat(texts) ==
  IF texts = <<>> THEN <<>> ELSE texts[1] \o Concat(Tail(texts))

\* the kinds a node of kind k accepts in its members list
AllowedMembers(k) ==
  IF k = "class" THEN ClassMemberKinds
  ELSE IF k = "module" THEN ModuleMemberKinds
  ELSE {}

isHasMembers(k, i) == k[i] \in HasMembersKinds

\* ApiObject.__post_init__: a new object has no parent reference
post_init_parent == None

\* ApiObject.parent (getter): the referenced parent, None when unset
parent_get(par, i) == IF par[i] # None THEN par[i] ELSE None

\* ApiObject.parent (setter)
parent_set(par, i, p) == [par EXCEPT ![i] = p]

(***************************************************************************)
(* sync_hierarchy: ApiObject.sync_hierarchy sets the parent;               *)
(* HasMembers.sync_hierarchy sets the parent, then recurses into members.  *)
(* The result is the new parent table.                                     *)
(***************************************************************************)
RECURSIVE sync_hierarchy(_, _, _, _, _)
RECURSIVE sync_members(_, _, _, _, _, _)

sync_members(k, mem, par, node, seq, i) ==
  IF i > Len(seq) THEN par
  ELSE sync_members(k, mem, sync_hierarchy(k, mem, par, seq[i], node), node, seq, i + 1)

\* a synchronizer that sets the parent of the direct members without recursing
sync_hierarchy_shallow(k, mem, par, node, p) ==
  LET par1 == parent_set(par, node, p)
  IN IF isHasMembers(k, node)
     THEN [i \in Ids |-> IF i \in Range(mem[node]) THEN node ELSE par1[i]]
     ELSE par1

sync_hierarchy(k, mem, par, node, p) ==
  IF isHasMembers(k, node)
  THEN sync_members(k, mem, parent_set(par, node, p), node, mem[node], 1)
  ELSE parent_set(par, node, p)

(***************************************************************************)
(* ApiObject.path: self, then repeated parent lookups, reversed.           *)
(* The fuel bounds the loop of the model (a cycle of parent references     *)
(* would make the code loop forever).                                      *)
(***************************************************************************)
RECURSIVE path_up(_, _, _)
path_up(par, current, fuel) ==
  IF current = None \/ fuel = 0 THEN <<>>
  ELSE <<current>> \o path_up(par, parent_get(par, current), fuel - 1)

Reverse(s) == [i \in 1..Len(s) |-> s[Len(s) + 1 - i]]

path(par, x) == Reverse(path_up(par, x, MaxNodes + 1))

(***************************************************************************)
(* Ownership, read top-down from the members lists                         *)
(***************************************************************************)
Allocated(k) == {i \in Ids : k[i] # "none"}

\* the nodes whose members list holds m
OwnersOf(k, mem, m) == {n \in Allocated(k) : isHasMembers(k, n) /\ m \in Range(mem[n])}

RECURSIVE Reachable(_, _, _, _)
\* the nodes reachable from the set s through members lists
Reachable(k, mem, s, fuel) ==
  LET next == s \cup UNION {Range(mem[n]) : n \in {x \in s : isHasMembers(k, x)}}
  IN IF next = s \/ fuel = 0 THEN s ELSE Reachable(k, mem, next, fuel - 1)

TreeNodes(k, mem, r) == IF r = None THEN {} ELSE Reachable(k, mem, {r}, MaxNodes)

RECURSIVE AncestorsDown(_, _, _, _, _)
\* the ancestors of x from the root down, ending with x, by the members lists
AncestorsDown(k, mem, r, x, fuel) ==
  IF x = r \/ fuel = 0 \/ OwnersOf(k, mem, x) = {} THEN <<x>>
  ELSE AncestorsDown(k, mem, r, CHOOSE n \in OwnersOf(k, mem, x) : TRUE, fuel - 1) \o <<x>>

\* every member of every HasMembers node below r refers back to that node
Synchronized(k, mem, par, r) ==
  /\ r # None => par[r] = None
  /\ \A n \in TreeNodes(k, mem, r) :
       isHasMembers(k, n) => \A j \in DOMAIN mem[n] : par[mem[n][j]] = n

(***************************************************************************)
(* Tree shapes a loader can build: node 1 is the Module, node i > 1 is     *)
(* owned by an earlier node, members lists are in declaration order.  The  *)
(* objects are numbered in the order of their declaration (depth first),   *)
(* so that every ordered tree is built once.                               *)
(***************************************************************************)
RECURSIVE IsAncestorOrSelf(_, _, _)
IsAncestorOrSelf(ow, a, j) ==
  IF a = j THEN TRUE
  ELSE IF j <= 1 \/ ow[j] >= j THEN FALSE
  ELSE IsAncestorOrSelf(ow, a, ow[j])

SeqOfSet(S) ==
  LET RECURSIVE build(_)
      build(T) == IF T = {} THEN <<>>
                  ELSE LET m == CHOOSE x \in T : \A y \in T : x <= y
                       IN <<m>> \o build(T \ {m})
  IN build(S)

ValidShape(n, ow, k) ==
  /\ k[1] = "module"
  /\ \A i \in 2..n : /\ ow[i] < i
                     /\ IsAncestorOrSelf(ow, ow[i], i - 1)
                     /\ k[i] \in AllowedMembers(k[ow[i]])

ShapeKind(n, k) == [i \in Ids |-> IF i <= n THEN k[i] ELSE "none"]

ShapeMembers(n, ow) ==
  [i \in Ids |-> SeqOfSet({j \in 2..n : ow[j] = i})]

\* construction: every object comes out of __post_init__ without a parent
FreshParents == [i \in Ids |-> post_init_parent]

(***************************************************************************)
(* Loaders.  Each builds a tree; the ones that call sync_hierarchy on the  *)
(* module they built do so before they return it.                          *)
(***************************************************************************)
\* the kinds of the trees built here: sync_hierarchy and path tell objects
\* apart only by isinstance(HasMembers), so one kind without members is drawn
LoadedKinds == {"data", "class", "module"}

Build(n, ow, k) ==
  /\ kind' = ShapeKind(n, k)
  /\ members' = ShapeMembers(n, ow)
  /\ root' = 1
  /\ edits' = 0
  /\ syncedBefore' = FALSE
  /\ UNCHANGED filterVars
  /\ UNCHANGED parserVars

\* docspec_python.parser.Parser.parse: builds the Module, then module.sync_hierarchy()
Parser_parse_sync(k, mem, par, r) == sync_hierarchy(k, mem, par, r, None)

\* docspec_python.parser2.parse_modules: yields parser.parse(m) as built
parse_modules_sync(k, mem, par, r) == par

\* docspec.load_module: databind load, then module.sync_hierarchy()
load_module_sync(k, mem, par, r) == sync_hierarchy(k, mem, par, r, None)

\* docspec.load_modules: per document, databind load, then module.sync_hierarchy()
load_modules_sync(k, mem, par, r) == sync_hierarchy(k, mem, par, r, None)

Parser_parse ==
  /\ op = "start"
  /\ \E n \in 1..MaxNodes : \E ow \in [2..n -> Ids] : \E k \in [1..n -> LoadedKinds] :
       /\ ValidShape(n, ow, k)
       /\ Build(n, ow, k)
       /\ parent' = Parser_parse_sync(ShapeKind(n, k), ShapeMembers(n, ow), FreshParents, 1)
  /\ op' = "Parser.parse"

parse_modules ==
  /\ op = "start"
  /\ \E n \in 1..MaxNodes : \E ow \in [2..n -> Ids] : \E k \in [1..n -> LoadedKinds] :
       /\ ValidShape(n, ow, k)
       /\ Build(n, ow, k)
       /\ parent' = parse_modules_sync(ShapeKind(n, k), ShapeMembers(n, ow), FreshParents, 1)
  /\ op' = "parser2.parse_modules"

load_module ==
  /\ op = "start"
  /\ \E n \in 1..MaxNodes : \E ow \in [2..n -> Ids] : \E k \in [1..n -> LoadedKinds] :
       /\ ValidShape(n, ow, k)
       /\ Build(n, ow, k)
       /\ parent' = load_module_sync(ShapeKind(n, k), ShapeMembers(n, ow), FreshParents, 1)
  /\ op' = "load_module"

load_modules ==
  /\ op = "start"
  /\ \E n \in 1..MaxNodes : \E ow \in [2..n -> Ids] : \E k \in [1..n -> LoadedKinds] :
       /\ ValidShape(n, ow, k)
       /\ Build(n, ow, k)
       /\ parent' = load_modules_sync(ShapeKind(n, k), ShapeMembers(n, ow), FreshParents, 1)
  /\ op' = "load_modules"

(***************************************************************************)
(* Edits of members lists by the user of the tree.  They do not touch the  *)
(* parent references ("adding to members does not keep parent in sync").   *)
(***************************************************************************)
RemoveAt(s, p) == [i \in 1..(Len(s) - 1) |-> IF i < p THEN s[i] ELSE s[i + 1]]

InsertAt(s, p, x) ==
  [i \in 1..(Len(s) + 1) |-> IF i < p THEN s[i] ELSE IF i = p THEN x ELSE s[i - 1]]

\* the objects held by no members list (other than the root)
Detached(k, mem, r) == {d \in Allocated(k) \ {r} : OwnersOf(k, mem, d) = {}}

\* del node.members[p]
RemoveMember ==
  /\ op # "start"
  /\ edits < MaxEdits
  /\ \E x \in TreeNodes(kind, members, root) : \E p \in DOMAIN members[x] :
       members' = [members EXCEPT ![x] = RemoveAt(members[x], p)]
  /\ edits' = edits + 1
  /\ op' = "edit"
  /\ syncedBefore' = Synchronized(kind, members, parent, root)
  /\ UNCHANGED <<kind, parent, root>>
  /\ UNCHANGED filterVars
  /\ UNCHANGED parserVars

\* node.members.insert(p, d) for an object d that is in no list
InsertMember ==
  /\ op # "start"
  /\ edits < MaxEdits
  /\ \E x \in TreeNodes(kind, members, root) : \E d \in Detached(kind, members, root) :
       \E p \in 1..(Len(members[x]) + 1) :
         /\ kind[d] \in AllowedMembers(kind[x])
         /\ members' = [members EXCEPT ![x] = InsertAt(members[x], p, d)]
  /\ edits' = edits + 1
  /\ op' = "edit"
  /\ syncedBefore' = Synchronized(kind, members, parent, root)
  /\ UNCHANGED <<kind, parent, root>>
  /\ UNCHANGED filterVars
  /\ UNCHANGED parserVars

\* root.sync_hierarchy(), called without a parent
SyncHierarchy ==
  /\ op # "start"
  /\ parent' = sync_hierarchy(kind, members, parent, root, None)
  /\ op' = "sync_hierarchy"
  /\ syncedBefore' = Synchronized(kind, members, parent, root)
  /\ UNCHANGED <<kind, members, root, edits>>
  /\ UNCHANGED filterVars
  /\ UNCHANGED parserVars

\* no filter_visit call is in progress or was made
FilterIdle ==
  /\ objects = <<>>
  /\ stack = <<>>
  /\ trace = <<>>
  /\ rejected = {}
  /\ order = "pre"
  /\ members0 = [i \in Ids |-> <<>>]
  /\ objects0 = <<>>
  /\ runs = 0
  /\ fpc = "idle"
  /\ raised = "none"

\* no parse_parameters call was made
ParamsIdle ==
  /\ sig = <<>>
  /\ children = <<>>
  /\ index = 1
  /\ result = <<>>
  /\ argtype = "POSITIONAL"
  /\ ppc = "start"

\* no class definition was parsed
ClassIdle ==
  /\ cparser = "parser"
  /\ ckeyword = ""
  /\ cbody = <<>>
  /\ cpos = 1
  /\ metaclass = ""
  /\ cmembers = <<>>
  /\ cpc = "start"

\* no module was dumped
SerialIdle ==
  /\ smodule = <<>>
  /\ swire = <<>>
  /\ sloaded = <<>>
  /\ sredump = <<>>
  /\ spc = "built"

\* no import statement was parsed
ImportIdle ==
  /\ istmt = <<>>
  /\ iprefix = <<>>
  /\ ipos = 1
  /\ iresult = <<>>
  /\ ipc = "start"

\* no block of statements was parsed
DocIdle ==
  /\ dblock = <<>>
  /\ dmodule = <<>>
  /\ dpos = 1
  /\ dmembers = <<>>
  /\ dpc = "start"

\* no batch was loaded
BatchIdle ==
  /\ bunits = <<>>
  /\ bloader = "none"
  /\ braise = TRUE
  /\ bpos = 1
  /\ bfiles = <<>>
  /\ byielded = <<>>
  /\ berror = <<>>
  /\ bpc = "start"

\* no caller holds an object
WeakIdle ==
  /\ wheld = {}
  /\ walive = {}
  /\ wread = <<>>
  /\ wpc = "start"

\* nothing was written to a stream
StreamIdle ==
  /\ tmodules = <<>>
  /\ tstream = <<>>
  /\ tpos = 1
  /\ tcursor = 1
  /\ tloaded = <<>>
  /\ tpc = "dump"

\* no thread called parse
ThreadsIdle ==
  /\ hparser = <<>>
  /\ hsize = <<>>
  /\ hfilename = <<>>
  /\ hmodule = <<>>
  /\ hpc = <<>>

\* no block was looked at
BlockIdle ==
  /\ kowner = "module"
  /\ kform = "module"
  /\ kblock = <<>>
  /\ koption = FALSE
  /\ kdocstring = <<>>
  /\ kpc = "start"

MoreIdle ==
  /\ StreamIdle
  /\ ThreadsIdle
  /\ BlockIdle

ExtraIdle ==
  /\ ImportIdle
  /\ DocIdle
  /\ BatchIdle
  /\ WeakIdle
  /\ MoreIdle

ParserIdle ==
  /\ ParamsIdle
  /\ ClassIdle
  /\ SerialIdle
  /\ ExtraIdle

InitTree ==
  /\ kind = [i \in Ids |-> "none"]
  /\ members = [i \in Ids |-> <<>>]
  /\ parent = [i \in Ids |-> None]
  /\ root = None
  /\ op = "start"
  /\ edits = 0
  /\ syncedBefore = FALSE
  /\ FilterIdle
  /\ ParserIdle

NextTree ==
  \/ Parser_parse
  \/ parse_modules
  \/ load_module
  \/ load_modules
  \/ RemoveMember
  \/ InsertMember
  \/ SyncHierarchy

SpecTree == InitTree /\ [][NextTree]_vars

(***************************************************************************)
(* Properties of loaders and of sync_hierarchy (SpecTree)                  *)
(***************************************************************************)
Loaders == {"Parser.parse", "parser2.parse_modules", "load_module", "load_modules"}

\* C2: after sync_hierarchy(root) called without a parent, whatever the
\* back-references were before, root.parent is None, every member of every
\* HasMembers node reachable from the root has that node as its parent, and
\* path(x) of every node of the tree is its ancestors from the root down,
\* ending with x.
C2_SyncHierarchy ==
  op = "sync_hierarchy" =>
    /\ parent_get(parent, root) = None
    /\ \A n \in TreeNodes(kind, members, root) :
         isHasMembers(kind, n) =>
           \A j \in DOMAIN members[n] : parent_get(parent, members[n][j]) = n
    /\ \A x \in TreeNodes(kind, members, root) :
         path(parent, x) = AncestorsDown(kind, members, root, x, MaxNodes)

\* C2 witness: a synchronization that repaired references left over from
\* edits, on a tree with a node two levels below the root
C2_Witness ==
  /\ op = "sync_hierarchy"
  /\ edits >= 1
  /\ ~syncedBefore
  /\ \E x \in TreeNodes(kind, members, root) : Len(path(parent, x)) >= 3

\* C3: every Module a loader returns is already synchronized: the root has
\* no parent and every member at every depth refers back to the node whose
\* members list holds it.
C3_LoadersReturnSynchronized ==
  op \in Loaders => Synchronized(kind, members, parent, root)

(***************************************************************************)
(* filter_visit(objects, predicate, order)                                 *)
(* src/docspec/src/docspec/__init__.py, lines 543-580.                     *)
(*                                                                         *)
(* An activation is a record                                               *)
(*   objs    the list it works on (for the outermost one, the caller's)    *)
(*   n       len(objects) when the loop started: range(len(objects))       *)
(*   index   the loop variable (0-based, as in the code)                   *)
(*   offset  the number of deletions made so far                           *)
(*   stage   "head": at `current = objects[index - offset]`                *)
(*           "members": before the isinstance(current, HasMembers) test    *)
(*           "tail": before the `if order == 'post'` test                  *)
(*   owner   the `current` of the calling activation (None: outermost)     *)
(*   err     the exception raised in this activation, "none" otherwise     *)
(***************************************************************************)
\* number of filter_visit calls made on one tree
MaxRuns == 2

Orders == {"pre", "post", "in"}

\* `if order not in ('pre', 'post'): raise ValueError`
valid_order(ord) == ord \in {"pre", "post"}

\* the predicate: False for the rejected objects
predicate(rej, x) == x \notin rej

NewFrame(objs, owner) ==
  [objs |-> objs, n |-> Len(objs), index |-> 0, offset |-> 0,
   stage |-> "head", owner |-> owner, err |-> "none"]

\* objects[index]: the position read without the offset
current_at_index(f) ==
  IF (f.index + 1) \in DOMAIN f.objs THEN f.objs[f.index + 1] ELSE None

\* objects[index - offset]; None stands for the IndexError of a bad position
current_at(f) ==
  IF (f.index - f.offset + 1) \in DOMAIN f.objs
  THEN f.objs[f.index - f.offset + 1]
  ELSE None

\* a deletion one position too low: del objects[index - offset - 1], where
\* Python's index -1 is the last element
delete_previous(f) ==
  LET p == IF f.index - f.offset = 0 THEN Len(f.objs) ELSE f.index - f.offset
  IN IF p \in DOMAIN f.objs
     THEN [f EXCEPT !.objs = RemoveAt(f.objs, p), !.offset = f.offset + 1]
     ELSE [f EXCEPT !.err = "IndexError"]

\* del objects[index - offset]; offset += 1
delete_current(f) ==
  IF (f.index - f.offset + 1) \in DOMAIN f.objs
  THEN [f EXCEPT !.objs = RemoveAt(f.objs, f.index - f.offset + 1),
                 !.offset = f.offset + 1]
  ELSE [f EXCEPT !.err = "IndexError"]

\* the test of the order left out: the predicate is applied in every order
applies_before_members_always(ord) == TRUE

\* `if order == 'pre'`: the predicate is applied before the members are visited
applies_before_members(ord) == ord = "pre"

\* a misspelled order: the predicate is never applied after the members
applies_after_members_never(ord) == ord = "postorder"

\* `if order == 'post'`: the predicate is applied after the members were visited
applies_after_members(ord) == ord = "post"

\* the members of current followed by the members of these members
members_copy_flattened(mem, cur) ==
  mem[cur] \o Concat([j \in 1..Len(mem[cur]) |-> mem[mem[cur][j]]])

\* list(current.members): the inner call works on a copy
members_copy(mem, cur) == mem[cur]

\* the result of the inner call dropped: current.members keeps its old list
assign_members_dropped(mem, cur, objs) == mem

\* current.members = filter_visit(...)
assign_members(mem, cur, objs) == [mem EXCEPT ![cur] = objs]

Top == stack[Len(stack)]

SetTop(f) == [stack EXCEPT ![Len(stack)] = f]

\* the outermost activation works on the caller's list itself
CallerList(stk) == IF stk = <<>> THEN objects ELSE stk[1].objs

\* an exception leaves all activations; the caller's list stays as mutated so far
RaiseKeepTrace(stk, e) ==
  /\ stack' = <<>>
  /\ objects' = CallerList(stk)
  /\ raised' = e
  /\ fpc' = "done"
  /\ runs' = runs + 1

Raise(stk, e) ==
  /\ RaiseKeepTrace(stk, e)
  /\ UNCHANGED <<members, trace>>

Continue(stk) ==
  /\ stack' = stk
  /\ objects' = CallerList(stk)
  /\ UNCHANGED <<raised, fpc, runs>>

\* the call filter_visit([root], predicate, order)
FilterStart ==
  /\ fpc \in {"idle", "done"}
  /\ runs < MaxRuns
  /\ members0' = members
  /\ objects0' = objects
  /\ trace' = <<>>
  /\ IF valid_order(order)
     THEN /\ stack' = <<NewFrame(objects, None)>>
          /\ fpc' = "running"
          /\ raised' = "none"
          /\ UNCHANGED runs
     ELSE /\ stack' = <<>>
          /\ fpc' = "done"
          /\ raised' = "ValueError"
          /\ runs' = runs + 1
  /\ UNCHANGED <<objects, rejected, order, members>>
  /\ UNCHANGED treeVarsButMembers
  /\ UNCHANGED parserVars

\* lines 567-572: read current; in 'pre' order apply the predicate and delete
\* the object when it is rejected (and continue with the next index)
LoopHead ==
  /\ fpc = "running"
  /\ Top.stage = "head"
  /\ Top.index < Top.n
  /\ LET f == Top
         cur == current_at(f)
     IN IF cur = None
        THEN Raise(stack, "IndexError")
        ELSE IF applies_before_members(order)
        THEN /\ trace' = Append(trace, cur)
             /\ IF ~predicate(rejected, cur)
                THEN LET g == delete_current(f)
                     IN IF g.err # "none"
                        THEN RaiseKeepTrace(SetTop(g), g.err)
                        ELSE Continue(SetTop([g EXCEPT !.index = f.index + 1]))
                ELSE Continue(SetTop([f EXCEPT !.stage = "members"]))
             /\ UNCHANGED members
        ELSE /\ Continue(SetTop([f EXCEPT !.stage = "members"]))
             /\ UNCHANGED <<members, trace>>
  /\ UNCHANGED <<rejected, order, members0, objects0>>
  /\ UNCHANGED treeVarsButMembers
  /\ UNCHANGED parserVars

\* lines 573-574, isinstance(current, HasMembers): the recursive call starts
Descend ==
  /\ fpc = "running"
  /\ Top.stage = "members"
  /\ isHasMembers(kind, current_at(Top))
  /\ Continue(Append(stack, NewFrame(members_copy(members, current_at(Top)), current_at(Top))))
  /\ UNCHANGED <<members, trace, rejected, order, members0, objects0>>
  /\ UNCHANGED treeVarsButMembers
  /\ UNCHANGED parserVars

\* line 573, current is no HasMembers
NoMembers ==
  /\ fpc = "running"
  /\ Top.stage = "members"
  /\ ~isHasMembers(kind, current_at(Top))
  /\ Continue(SetTop([Top EXCEPT !.stage = "tail"]))
  /\ UNCHANGED <<members, trace, rejected, order, members0, objects0>>
  /\ UNCHANGED treeVarsButMembers
  /\ UNCHANGED parserVars

\* line 580 of the inner call and the assignment of line 574 in the calling one
Return ==
  /\ fpc = "running"
  /\ Len(stack) > 1
  /\ Top.stage = "head"
  /\ Top.index = Top.n
  /\ LET f == Top
         rest == SubSeq(stack, 1, Len(stack) - 1)
         caller == rest[Len(rest)]
     IN /\ members' = assign_members(members, f.owner, f.objs)
        /\ Continue([rest EXCEPT ![Len(rest)] = [caller EXCEPT !.stage = "tail"]])
  /\ UNCHANGED <<trace, rejected, order, members0, objects0>>
  /\ UNCHANGED treeVarsButMembers
  /\ UNCHANGED parserVars

\* lines 575-578: in 'post' order apply the predicate and delete the object
\* when it is rejected; then the next index
LoopTail ==
  /\ fpc = "running"
  /\ Top.stage = "tail"
  /\ LET f == Top
         cur == current_at(f)
         nxt(g) == [g EXCEPT !.index = f.index + 1, !.stage = "head"]
     IN IF applies_after_members(order)
        THEN /\ trace' = Append(trace, cur)
             /\ IF ~predicate(rejected, cur)
                THEN LET g == delete_current(f)
                     IN IF g.err # "none"
                        THEN RaiseKeepTrace(SetTop(g), g.err)
                        ELSE Continue(SetTop(nxt(g)))
                ELSE Continue(SetTop(nxt(f)))
        ELSE /\ Continue(SetTop(nxt(f)))
             /\ UNCHANGED trace
  /\ UNCHANGED <<members, rejected, order, members0, objects0>>
  /\ UNCHANGED treeVarsButMembers
  /\ UNCHANGED parserVars

\* line 580 of the outermost call: the caller gets its list back
FilterReturn ==
  /\ fpc = "running"
  /\ Len(stack) = 1
  /\ Top.stage = "head"
  /\ Top.index = Top.n
  /\ stack' = <<>>
  /\ objects' = Top.objs
  /\ fpc' = "done"
  /\ runs' = runs + 1
  /\ UNCHANGED <<raised, members, trace, rejected, order, members0, objects0>>
  /\ UNCHANGED treeVarsButMembers
  /\ UNCHANGED parserVars

\* the kinds of the trees filtered here: the Module at the top, and under it
\* Variables, one other kind without members, and Classes
FilterKinds == {"data", "function", "class", "module"}

FilterMemberKinds == {"data", "function", "class"}

\* a synchronized tree, as a loader returns it, in a list of its own, with a
\* predicate and an order chosen by the caller
InitFilter ==
  /\ \E n \in 1..MaxNodes : \E ow \in [2..n -> Ids] : \E k \in [1..n -> FilterKinds] :
       /\ ValidShape(n, ow, k)
       /\ \A i \in 2..n : k[i] \in FilterMemberKinds
       /\ kind = ShapeKind(n, k)
       /\ members = ShapeMembers(n, ow)
       /\ parent = load_module_sync(ShapeKind(n, k), ShapeMembers(n, ow), FreshParents, 1)
       /\ rejected \in SUBSET (1..n)
  /\ root = 1
  /\ op = "load_module"
  /\ edits = 0
  /\ syncedBefore = FALSE
  /\ objects = <<root>>
  /\ stack = <<>>
  /\ trace = <<>>
  /\ order \in Orders
  /\ members0 = members
  /\ objects0 = objects
  /\ runs = 0
  /\ fpc = "idle"
  /\ raised = "none"
  /\ ParserIdle

NextFilter ==
  \/ FilterStart
  \/ LoopHead
  \/ Descend
  \/ NoMembers
  \/ Return
  \/ LoopTail
  \/ FilterReturn

SpecFilter == InitFilter /\ [][NextFilter]_vars

(***************************************************************************)
(* Properties of filter_visit (SpecFilter)                                 *)
(***************************************************************************)
\* s without the objects the predicate rejects, order kept
Filtered(s) ==
  LET keep(x) == predicate(rejected, x) IN SelectSeq(s, keep)

VariableNodes == {i \in Allocated(kind) : kind[i] = "data"}

\* the node whose members list held x when the call started (None: the root)
Owner0(x) ==
  IF \E n \in Allocated(kind) : isHasMembers(kind, n) /\ x \in Range(members0[n])
  THEN CHOOSE n \in Allocated(kind) : isHasMembers(kind, n) /\ x \in Range(members0[n])
  ELSE None

RECURSIVE AncestorsAccepted(_, _)
\* every proper ancestor of x (at the start of the call) is accepted
AncestorsAccepted(x, fuel) ==
  \/ Owner0(x) = None
  \/ fuel = 0
  \/ /\ predicate(rejected, Owner0(x))
     /\ AncestorsAccepted(Owner0(x), fuel - 1)

\* the objects below the caller's list when the call started
StartNodes == Reachable(kind, members0, Range(objects0), MaxNodes)

Returned == fpc = "done" /\ valid_order(order)

\* C4: a predicate that rejects exactly the Variable nodes removes exactly the
\* Variable members at every depth; every other member stays, is the same
\* object and keeps its relative order in its members list.
C4_RejectVariables ==
  (Returned /\ runs = 1 /\ rejected = VariableNodes) =>
    /\ raised = "none"
    /\ objects = objects0
    /\ \A n \in Allocated(kind) :
         isHasMembers(kind, n) =>
           LET notVariable(x) == kind[x] # "data"
           IN members[n] = SelectSeq(members0[n], notVariable)

\* C4 witness: Variables were removed below the root and below a nested node,
\* one of them in front of a member that stayed
C4_Witness ==
  /\ Returned /\ runs = 1 /\ rejected = VariableNodes
  /\ \E n \in Allocated(kind) \ {root} : /\ isHasMembers(kind, n)
                                         /\ members[n] # members0[n]
  /\ \E n \in Allocated(kind) :
       /\ isHasMembers(kind, n)
       /\ Len(members0[n]) >= 2
       /\ kind[members0[n][1]] = "data"
       /\ members[n] # <<>>

\* C5: in 'pre' order the predicate is applied to a node before any of its
\* members, and never to a node below a rejected one, which is removed; in
\* 'post' order it is applied to a node after all its members and after its
\* members list was filtered, also when the node is then removed.
C5_PredicateOrder ==
  /\ (fpc # "idle" /\ order = "pre") =>
       /\ \A i \in DOMAIN trace :
            /\ Owner0(trace[i]) # None =>
                 \E j \in 1..(i - 1) : /\ trace[j] = Owner0(trace[i])
                                      /\ predicate(rejected, trace[j])
            /\ \A j \in DOMAIN trace : trace[j] = trace[i] => j = i
       /\ (fpc = "done") =>
            /\ Range(trace) = {x \in StartNodes : AncestorsAccepted(x, MaxNodes)}
            /\ Range(objects) \cap rejected = {}
            /\ \A x \in Range(trace) : isHasMembers(kind, x) =>
                 members[x] = IF predicate(rejected, x) THEN Filtered(members0[x])
                              ELSE members0[x]
  /\ (fpc # "idle" /\ order = "post") =>
       /\ \A i \in DOMAIN trace :
            /\ isHasMembers(kind, trace[i]) =>
                 /\ \A m \in Range(members0[trace[i]]) : \E j \in 1..(i - 1) : trace[j] = m
                 /\ members[trace[i]] = Filtered(members0[trace[i]])
            /\ \A j \in DOMAIN trace : trace[j] = trace[i] => j = i
       /\ (fpc = "done") =>
            /\ Range(trace) = StartNodes
            /\ Range(objects) \cap rejected = {}

\* C5 witness: a 'post' traversal that removed a node after it had applied
\* the predicate to the node's members and had filtered its members list
C5_Witness ==
  /\ fpc = "done" /\ order = "post" /\ runs = 1
  /\ \E x \in rejected \ {root} :
       /\ isHasMembers(kind, x)
       /\ members0[x] # members[x]
       /\ members[x] # <<>>
       /\ x \in Range(trace)

\* the 'pre' case of C5 acted: a rejected node with members was removed and
\* the predicate was applied to none of its members
C5_PreCase ==
  /\ fpc = "done" /\ order = "pre" /\ runs = 1
  /\ \E x \in rejected \ {root} :
       /\ isHasMembers(kind, x)
       /\ members0[x] # <<>>
       /\ Range(members0[x]) \cap Range(trace) = {}
       /\ x \in Range(trace)

\* C6 as stated: a predicate that rejects the root raises a fatal error and
\* leaves the root, the list holding it and every members list untouched.
C6_RootRejectionRaises ==
  (Returned /\ runs = 1 /\ root \in rejected) =>
    /\ raised # "none"
    /\ objects = objects0
    /\ members = members0

\* C6 as the code has it: a predicate that rejects the root raises no error
\* and the root is removed from the list that holds it; in 'pre' order every
\* members list below it is left as it was, in 'post' order every members
\* list below it has been filtered before the root is removed.
C6_RootRejectionRemovesRoot ==
  (Returned /\ runs = 1 /\ root \in rejected) =>
    /\ raised = "none"
    /\ objects = <<>>
    /\ order = "pre" => (members = members0 /\ trace = <<root>>)
    /\ order = "post" =>
         \A n \in Allocated(kind) :
           isHasMembers(kind, n) => members[n] = Filtered(members0[n])

\* C6 witness: a 'post' call rejected the root after it had changed a
\* members list below it
C6_Witness ==
  /\ Returned /\ runs = 1 /\ root \in rejected
  /\ order = "post"
  /\ members # members0
  /\ objects = <<>>

\* C7: running the filter again with the same predicate changes nothing: the
\* caller's list and every members list are as the first run left them.
C7_RefilterIsNoOp ==
  (Returned /\ runs >= 2) =>
    /\ raised = "none"
    /\ objects = objects0
    /\ members = members0

\* C7 witness: a second run ended on a tree from which the first run had
\* removed a node and in which members are left
C7_Witness ==
  /\ Returned /\ runs = 2
  /\ objects = <<root>>
  /\ members[root] # <<>>
  /\ \E x \in rejected : x \in Allocated(kind) /\ x \notin TreeNodes(kind, members, root)

\* the list an activation was called with
OriginalList(f) == IF f.owner = None THEN objects0 ELSE members0[f.owner]

\* C26: in every activation of filter_visit, all through the loop, the list
\* is as long as the original list minus the deletions made; the position
\* index - offset that is read lies inside the list and holds the element
\* of the original list at position index; the elements in front of it are
\* the accepted ones among the elements examined so far, in their order, and
\* the elements from it on are the rest of the original list: no element is
\* skipped or examined twice and no IndexError is raised.
C26_IndexStaysInside ==
  /\ raised # "IndexError"
  /\ \A d \in DOMAIN stack :
       LET f == stack[d]
           original == OriginalList(f)
       IN /\ f.n = Len(original)
          /\ f.offset <= f.index /\ f.index <= f.n
          /\ Len(f.objs) = f.n - f.offset
          /\ f.index < f.n =>
               /\ (f.index - f.offset + 1) \in DOMAIN f.objs
               /\ f.objs[f.index - f.offset + 1] = original[f.index + 1]
          /\ f.objs = Filtered(SubSeq(original, 1, f.index))
                        \o SubSeq(original, f.index + 1, f.n)

\* an activation on a list of three elements has deleted one of the first
\* two and is about to read the third one, at position 1 of the list
C26_Witness ==
  /\ fpc = "running"
  /\ Len(stack) = 2
  /\ Top.n = 3
  /\ Top.index = 2
  /\ Top.offset = 1
  /\ Top.stage = "head"
  /\ Len(Top.objs) = 2
  /\ Top.objs[2] = members0[Top.owner][3]

\* C27: after filter_visit, and after visit (a predicate that rejects
\* nothing), on a synchronized tree, every member of every members list, at
\* every depth, still refers back to the node whose list holds it, although
\* no sync_hierarchy was called and the members lists were replaced.
C27_ParentsSurviveFilter ==
  Returned =>
    /\ op # "sync_hierarchy"
    /\ \A n \in Allocated(kind) :
         isHasMembers(kind, n) =>
           \A j \in DOMAIN members[n] : parent_get(parent, members[n][j]) = n

\* a call ended that removed a member of a node below the root and left
\* another one, which refers back to that node
C27_Witness ==
  /\ Returned /\ runs = 1
  /\ \E n \in Range(members[root]) :
       /\ isHasMembers(kind, n)
       /\ members[n] # members0[n]
       /\ members[n] # <<>>
       /\ \A j \in DOMAIN members[n] : parent_get(parent, members[n][j]) = n

(***************************************************************************)
(* Argument classification:                                                *)
(* src/docspec-python/src/docspec_python/parser.py, Parser.parse_parameters *)
(***************************************************************************)
\* the largest number of named parameters in a parameter list
MaxParams == 3

\* None, where a field holds source text
NoText == ""

\* the names, default values and annotations written in the source, by the
\* position of the parameter in the list
ParamNames == <<"x", "y", "z", "w", "v", "u">>

DefaultTexts == <<"3", "5", "7", "9", "11", "13">>

AnnotationTexts == <<"int", "str", "bool", "float", "bytes", "list">>

\* Argument.Type
ArgumentTypes ==
  {"POSITIONAL_ONLY", "POSITIONAL", "POSITIONAL_REMAINDER", "KEYWORD_ONLY", "KEYWORD_REMAINDER"}

\* the k-th named parameter of a list, with or without default and annotation
Param(k, hasDefault, hasAnnotation) ==
  [name |-> ParamNames[k],
   default |-> IF hasDefault THEN DefaultTexts[k] ELSE NoText,
   annotation |-> IF hasAnnotation THEN AnnotationTexts[k] ELSE NoText]

\* a node of the syntax tree: a leaf, or a tname / tname_star node that holds
\* a name, a colon and an annotation
Leaf(type, text) == [type |-> type, text |-> text, annotation |-> NoText]

NoNode == Leaf("None", NoText)

\* no parameter: a list without `*name`, or without `**name`
NoParam == [name |-> NoText, default |-> NoText, annotation |-> NoText]

NameNode(p, annotatedType) ==
  IF p.annotation = NoText THEN Leaf("NAME", p.name)
  ELSE [type |-> annotatedType, text |-> p.name, annotation |-> p.annotation]

\* the nodes of one parameter: its name, and "=" and the default if it has one
ParamNodes(p) ==
  IF p.default = NoText THEN <<NameNode(p, "tname")>>
  ELSE <<NameNode(p, "tname"), Leaf("EQUAL", "="), Leaf("test", p.default)>>

RECURSIVE JoinParams(_)
JoinParams(ps) ==
  IF ps = <<>> THEN <<>>
  ELSE IF Len(ps) = 1 THEN ParamNodes(ps[1])
  ELSE ParamNodes(ps[1]) \o <<Leaf("COMMA", ",")>> \o JoinParams(Tail(ps))

\* two groups of nodes, with a comma between them when both are there
CommaJoin(a, b) ==
  IF a = <<>> THEN b
  ELSE IF b = <<>> THEN a
  ELSE a \o <<Leaf("COMMA", ",")>> \o b

\* the children of the typedargslist node of the parameter list s
Children(s) ==
  LET posonly == IF s.posonly = <<>> THEN <<>>
                 ELSE JoinParams(s.posonly) \o <<Leaf("COMMA", ","), Leaf("SLASH", "/")>>
      star == IF s.star = "none" THEN <<>>
              ELSE IF s.star = "bare" THEN <<Leaf("STAR", "*")>>
              ELSE <<Leaf("STAR", "*"), NameNode(s.vararg, "tname_star")>>
      kwarg == IF s.kwarg = NoParam THEN <<>>
               ELSE <<Leaf("DOUBLESTAR", "**"), NameNode(s.kwarg, "tname")>>
      list == CommaJoin(CommaJoin(CommaJoin(CommaJoin(posonly, JoinParams(s.args)), star),
                                  JoinParams(s.kwonly)), kwarg)
  IN IF s.comma THEN list \o <<Leaf("COMMA", ",")>> ELSE list

\* the parameter list with np positional-only parameters, na plain ones,
\* a star (none, bare, or with a name), nk parameters after the star, and a
\* `**name` or none; d and a tell which parameters have a default and an
\* annotation
Signature(np, na, star, nk, kw, comma, d, a) ==
  LET v == IF star = "named" THEN 1 ELSE 0
  IN [posonly |-> [i \in 1..np |-> Param(i, d[i], a[i])],
      args |-> [i \in 1..na |-> Param(np + i, d[np + i], a[np + i])],
      star |-> star,
      vararg |-> IF star = "named" THEN Param(np + na + 1, FALSE, a[np + na + 1]) ELSE NoParam,
      kwonly |-> [i \in 1..nk |-> Param(np + na + v + i, d[np + na + v + i], a[np + na + v + i])],
      kwarg |-> IF kw THEN Param(np + na + v + nk + 1, FALSE, a[np + na + v + nk + 1]) ELSE NoParam,
      comma |-> comma]

\* the number of named parameters of such a list
NamedCount(np, na, star, nk, kw) ==
  np + na + nk + (IF star = "named" THEN 1 ELSE 0) + (IF kw THEN 1 ELSE 0)

\* the positions of `*name` and `**name` among the named parameters (they
\* have no default), 0 for none
VarargAt(np, na, star) == IF star = "named" THEN np + na + 1 ELSE 0

KwargAt(np, na, star, nk, kw) == IF kw THEN NamedCount(np, na, star, nk, kw) ELSE 0

\* the parameter lists the grammar accepts, up to MaxParams named parameters
IsSignature(s) ==
  \E np \in 0..MaxParams, na \in 0..MaxParams, nk \in 0..MaxParams,
     star \in {"none", "bare", "named"}, kw \in BOOLEAN, comma \in BOOLEAN :
    /\ NamedCount(np, na, star, nk, kw) <= MaxParams
    /\ star = "none" => nk = 0
    /\ comma => (NamedCount(np, na, star, nk, kw) > 0 \/ star = "bare")
    /\ \E d \in [1..NamedCount(np, na, star, nk, kw) -> BOOLEAN],
          a \in [1..NamedCount(np, na, star, nk, kw) -> BOOLEAN] :
         /\ \A i \in {VarargAt(np, na, star), KwargAt(np, na, star, nk, kw)} \ {0} : ~d[i]
         /\ s = Signature(np, na, star, nk, kw, comma, d, a)

\* find(lambda x: x.type == syms.typedargslist, parameters.children): a single
\* parameter without a default is not wrapped in a typedargslist node, and
\* neither is an empty list
has_typedargslist(s) == Len(Children(s)) > 1

(***************************************************************************)
(* nr.util.iter.SequenceWalker over a list of nodes; positions count from  *)
(* 1, and Len + 1 is the position past the last node.                      *)
(***************************************************************************)
\* whether the walker is at the last node or past it: next() cannot return a
\* node and advance() returns None
at_end(ch, i) == i >= Len(ch)

\* the position after advance() or a next() that returns
step(ch, i) == IF i <= Len(ch) THEN i + 1 ELSE i

\* the node advance() returned, None past the last node
node_at(ch, i) == IF i \in 1..Len(ch) THEN ch[i] ELSE NoNode

\* docspec.Argument
Argument(name, type, datatype, default) ==
  [name |-> name, type |-> type, datatype |-> datatype, default_value |-> default]

\* Parser.parse_argument(node, argtype, scanner), node at position i of ch:
\* the Argument and the position it leaves the scanner at
parse_argument(ch, i, type) ==
  LET node == ch[i]
      i1 == step(ch, i)
      hasDefault == node_at(ch, i1).type = "EQUAL"
      i2 == step(ch, i1)
  IN [argument |-> Argument(node.text, type, node.annotation,
                            IF hasDefault THEN node_at(ch, i2).text ELSE NoText),
      index |-> IF hasDefault THEN step(ch, i2) ELSE i1]

\* the mutation of arg.type for every arg collected so far
reclassify_kept(res) == res

reclassify(res) == [j \in 1..Len(res) |-> [res[j] EXCEPT !.type = "POSITIONAL_ONLY"]]

\* the type of the plain arguments after a star or double-star marker
after_star(type) == "KEYWORD_ONLY"

\* parse_parameters, the part without a typedargslist node: the list is
\* empty or holds one node
ParseWithoutList ==
  /\ ppc = "start"
  /\ ~has_typedargslist(sig)
  /\ result' = IF children = <<>> THEN <<>>
               ELSE IF children[1].type = "tname"
                 THEN <<parse_argument(children, 1, "POSITIONAL").argument>>
               ELSE <<Argument(children[1].text, "POSITIONAL", NoText, NoText)>>
  /\ ppc' = "done"
  /\ UNCHANGED <<sig, children, index, argtype>>
  /\ UNCHANGED <<treeVars, filterVars, classVars, serialVars, extraVars>>

\* argtype = POSITIONAL; index = SequenceWalker(arglist.children)
ParseList ==
  /\ ppc = "start"
  /\ has_typedargslist(sig)
  /\ argtype' = "POSITIONAL"
  /\ index' = 1
  /\ result' = <<>>
  /\ ppc' = "loop"
  /\ UNCHANGED <<sig, children>>
  /\ UNCHANGED <<treeVars, filterVars, classVars, serialVars, extraVars>>

\* the loop body runs for the node at the walker's position
InLoop(type) ==
  /\ ppc = "loop"
  /\ index <= Len(children)
  /\ children[index].type = type

\* node.type == token.SLASH
ParseSlash ==
  /\ InLoop("SLASH")
  /\ IF argtype = "POSITIONAL" /\ \A j \in 1..Len(result) : result[j].type = "POSITIONAL"
     THEN /\ result' = reclassify(result)
          /\ index' = IF node_at(children, step(children, index)).type = "COMMA"
                      THEN step(children, step(children, index))
                      ELSE step(children, index)
          /\ ppc' = "loop"
     ELSE /\ ppc' = "raised"
          /\ UNCHANGED <<result, index>>
  /\ UNCHANGED <<sig, children, argtype>>
  /\ UNCHANGED <<treeVars, filterVars, classVars, serialVars, extraVars>>

\* node.type == token.STAR, and a node follows the star
ParseStar ==
  /\ InLoop("STAR")
  /\ ~at_end(children, index)
  /\ LET i1 == step(children, index)
         pa == parse_argument(children, i1, "POSITIONAL_REMAINDER")
     IN IF children[i1].type # "COMMA"
        THEN /\ result' = Append(result, pa.argument)
             /\ index' = step(children, pa.index)
        ELSE /\ result' = result
             /\ index' = step(children, i1)
  /\ argtype' = after_star(argtype)
  /\ UNCHANGED <<sig, children, ppc>>
  /\ UNCHANGED <<treeVars, filterVars, classVars, serialVars, extraVars>>

\* node.type == token.STAR, and the star is the last node: index.next()
\* either raises StopIteration or returns a false value, as the installed
\* SequenceWalker does
ParseStarLast ==
  /\ InLoop("STAR")
  /\ at_end(children, index)
  /\ \E outcome \in {"StopIteration", "None"} :
       IF outcome = "None"
       THEN /\ index' = step(children, step(children, index))
            /\ argtype' = after_star(argtype)
            /\ ppc' = "loop"
       ELSE /\ ppc' = "raised"
            /\ UNCHANGED <<index, argtype>>
  /\ UNCHANGED <<sig, children, result>>
  /\ UNCHANGED <<treeVars, filterVars, classVars, serialVars, extraVars>>

\* node.type == token.DOUBLESTAR (the grammar puts a name after it)
ParseDoubleStar ==
  /\ InLoop("DOUBLESTAR")
  /\ ~at_end(children, index)
  /\ LET pa == parse_argument(children, step(children, index), "KEYWORD_REMAINDER")
     IN /\ result' = Append(result, pa.argument)
        /\ index' = step(children, pa.index)
  /\ argtype' = after_star(argtype)
  /\ UNCHANGED <<sig, children, ppc>>
  /\ UNCHANGED <<treeVars, filterVars, classVars, serialVars, extraVars>>

\* any other node: a parameter of the current type
ParsePlain ==
  /\ ppc = "loop"
  /\ index <= Len(children)
  /\ children[index].type \notin {"SLASH", "STAR", "DOUBLESTAR"}
  /\ LET pa == parse_argument(children, index, argtype)
     IN /\ result' = Append(result, pa.argument)
        /\ index' = step(children, pa.index)
  /\ UNCHANGED <<sig, children, argtype, ppc>>
  /\ UNCHANGED <<treeVars, filterVars, classVars, serialVars, extraVars>>

\* the walker is past the last node: return result
ParseReturn ==
  /\ ppc = "loop"
  /\ index > Len(children)
  /\ ppc' = "done"
  /\ UNCHANGED <<sig, children, index, result, argtype>>
  /\ UNCHANGED <<treeVars, filterVars, classVars, serialVars, extraVars>>

TreeIdle ==
  /\ kind = [i \in Ids |-> "none"]
  /\ members = [i \in Ids |-> <<>>]
  /\ parent = [i \in Ids |-> None]
  /\ root = None
  /\ op = "start"
  /\ edits = 0
  /\ syncedBefore = FALSE

InitParams ==
  /\ IsSignature(sig)
  /\ children = Children(sig)
  /\ index = 1
  /\ result = <<>>
  /\ argtype = "POSITIONAL"
  /\ ppc = "start"
  /\ TreeIdle
  /\ FilterIdle
  /\ ClassIdle
  /\ SerialIdle
  /\ ExtraIdle

NextParams ==
  \/ ParseWithoutList
  \/ ParseList
  \/ ParseSlash
  \/ ParseStar
  \/ ParseStarLast
  \/ ParseDoubleStar
  \/ ParsePlain
  \/ ParseReturn

SpecParams == InitParams /\ [][NextParams]_vars

(***************************************************************************)
(* Properties of argument classification (SpecParams)                      *)
(***************************************************************************)
\* the Argument that the parameter p of the source is, with the given type
ArgumentOf(p, type) == Argument(p.name, type, p.annotation, p.default)

\* the position of the node of the given type in children, 0 for none
NodeAt(type) ==
  IF \E i \in 1..Len(children) : children[i].type = type
  THEN CHOOSE i \in 1..Len(children) : children[i].type = type
  ELSE 0

\* parse_parameters ran and the walker went past the node of the given type
Passed(type) ==
  /\ ppc \in {"loop", "done", "raised"}
  /\ NodeAt(type) # 0
  /\ index > NodeAt(type)

TypesIn(res, type) == {j \in 1..Len(res) : res[j].type = type}

\* C8: once the walker is past a bare `/`, the arguments collected before it
\* are POSITIONAL_ONLY with the name, default and datatype written in the
\* source, and the arguments collected after it, up to a star, are
\* POSITIONAL; a returned result holds all of them.
C8_SlashReclassifies ==
  Passed("SLASH") =>
    /\ Len(result) >= Len(sig.posonly)
    /\ \A i \in 1..Len(sig.posonly) : result[i] = ArgumentOf(sig.posonly[i], "POSITIONAL_ONLY")
    /\ \A i \in 1..Len(sig.args) :
         Len(sig.posonly) + i <= Len(result) =>
           result[Len(sig.posonly) + i] = ArgumentOf(sig.args[i], "POSITIONAL")
    /\ ppc = "done" => Len(result) >= Len(sig.posonly) + Len(sig.args)

\* two parameters before the `/`, the second with a default, and one with a
\* default after it, all returned
C8_Witness ==
  /\ ppc = "done"
  /\ Len(sig.posonly) = 2
  /\ sig.posonly[1].default = NoText
  /\ sig.posonly[2].default # NoText
  /\ Len(sig.args) = 1
  /\ sig.args[1].default # NoText
  /\ Len(result) = 3
  /\ result[2].type = "POSITIONAL_ONLY"
  /\ result[3].type = "POSITIONAL"

\* C9: a name directly after the star is captured exactly once, as
\* POSITIONAL_REMAINDER; a star followed directly by a comma or by the end of
\* the list captures no argument (every Argument is a named parameter of the
\* list, none is POSITIONAL_REMAINDER); every plain name after the star is
\* KEYWORD_ONLY; the name after a double star is captured exactly once, as
\* KEYWORD_REMAINDER, with or without a star before it.
C9_StarCapture ==
  LET np == Len(sig.posonly) + Len(sig.args)
      v == IF sig.star = "named" THEN 1 ELSE 0
      nk == Len(sig.kwonly)
  IN ppc # "start" =>
       /\ sig.star = "named" /\ ppc = "done" =>
            /\ TypesIn(result, "POSITIONAL_REMAINDER") = {np + 1}
            /\ result[np + 1] = ArgumentOf(sig.vararg, "POSITIONAL_REMAINDER")
       /\ sig.star # "named" =>
            /\ TypesIn(result, "POSITIONAL_REMAINDER") = {}
            /\ Len(result) <= np + nk + (IF sig.kwarg = NoParam THEN 0 ELSE 1)
            /\ \A j \in 1..Len(result) : result[j].name \in Range(ParamNames)
       /\ ppc = "done" =>
            \A i \in 1..nk : result[np + v + i] = ArgumentOf(sig.kwonly[i], "KEYWORD_ONLY")
       /\ sig.kwarg # NoParam /\ ppc = "done" =>
            /\ TypesIn(result, "KEYWORD_REMAINDER") = {Len(result)}
            /\ result[Len(result)] = ArgumentOf(sig.kwarg, "KEYWORD_REMAINDER")
       /\ sig.kwarg = NoParam => TypesIn(result, "KEYWORD_REMAINDER") = {}

(***************************************************************************)
(* The classifier of parser2.py: _iter_arguments over ast.arguments        *)
(***************************************************************************)
\* ast.arguments of the parameter list s, as the compiler's parser builds
\* it: defaults holds the defaults of the positional parameters that have
\* one, kw_defaults one entry per keyword-only parameter (None for none)
ast_arguments(s) ==
  LET positional == s.posonly \o s.args
      withDefault == SelectSeq(positional, LAMBDA q : q.default # NoText)
  IN [posonlyargs |-> s.posonly,
      args |-> s.args,
      defaults |-> [i \in 1..Len(withDefault) |-> withDefault[i].default],
      vararg |-> s.vararg,
      kwonlyargs |-> s.kwonly,
      kw_defaults |-> [i \in 1..Len(s.kwonly) |-> s.kwonly[i].default],
      kwarg |-> s.kwarg]

\* class ArgSpec
ArgSpec(node, type, default) == [node |-> node.name, type |-> type, default |-> default]

\* defaults[index], without the offset
get_default_from_start(args, at) ==
  IF at + 1 \in DOMAIN args.defaults THEN args.defaults[at + 1] ELSE NoText

\* get_default(index), the index counted from 0 over posonlyargs and args
get_default(args, at) ==
  LET num_pos_args == Len(args.posonlyargs) + Len(args.args)
      default_offset == num_pos_args - Len(args.defaults)
  IN IF at - default_offset < 0 THEN NoText
     ELSE args.defaults[at - default_offset + 1]

\* _iter_arguments(args): the ArgSpecs in the order they are yielded
iter_arguments(args) ==
  [i \in 1..Len(args.posonlyargs) |->
     ArgSpec(args.posonlyargs[i], "POSITIONAL_ONLY", get_default(args, i - 1))]
  \o [i \in 1..Len(args.args) |->
        ArgSpec(args.args[i], "POSITIONAL",
                get_default(args, Len(args.posonlyargs) + i - 1))]
  \o (IF args.vararg # NoParam
        THEN <<ArgSpec(args.vararg, "POSITIONAL_REMAINDER", NoText)>> ELSE <<>>)
  \o [i \in 1..Len(args.kwonlyargs) |->
        ArgSpec(args.kwonlyargs[i], "KEYWORD_ONLY", args.kw_defaults[i])]
  \o (IF args.kwarg # NoParam
        THEN <<ArgSpec(args.kwarg, "KEYWORD_REMAINDER", NoText)>> ELSE <<>>)

\* the parameter lists Python accepts: among the positional parameters none
\* without a default follows one with a default, and a bare star is followed
\* by a keyword-only parameter
ValidParameterList(s) ==
  /\ LET positional == s.posonly \o s.args
     IN \A i, j \in 1..Len(positional) :
          (i < j /\ positional[i].default # NoText) => positional[j].default # NoText
  /\ s.star = "bare" => s.kwonly # <<>>

\* the rank of an Argument.Type in the order of a parameter list
TypeRank(type) ==
  CASE type = "POSITIONAL_ONLY" -> 1
    [] type = "POSITIONAL" -> 2
    [] type = "POSITIONAL_REMAINDER" -> 3
    [] type = "KEYWORD_ONLY" -> 4
    [] type = "KEYWORD_REMAINDER" -> 5

\* the types of a list of arguments come in the order of TypeRank, with at
\* most one argument of each remainder type
InTypeOrder(types) ==
  /\ \A i, j \in 1..Len(types) : i < j => TypeRank(types[i]) <= TypeRank(types[j])
  /\ \A r \in {"POSITIONAL_REMAINDER", "KEYWORD_REMAINDER"} :
       Cardinality({i \in 1..Len(types) : types[i] = r}) <= 1

\* C30: for every valid parameter list parse_parameters returns (it does not
\* raise) the arguments that _iter_arguments yields: as many, with the same
\* names in the same order, the same type for each, and a default value for
\* exactly the same arguments; in both the types come in the order
\* POSITIONAL_ONLY, POSITIONAL, POSITIONAL_REMAINDER, KEYWORD_ONLY,
\* KEYWORD_REMAINDER with at most one argument of each remainder type.
C30_ClassifiersAgree ==
  ValidParameterList(sig) =>
    /\ ppc # "raised"
    /\ ppc = "done" =>
         LET specs == iter_arguments(ast_arguments(sig))
         IN /\ Len(result) = Len(specs)
            /\ \A i \in 1..Len(specs) :
                 /\ result[i].name = specs[i].node
                 /\ result[i].type = specs[i].type
                 /\ (result[i].default_value # NoText) <=> (specs[i].default # NoText)
            /\ InTypeOrder([i \in 1..Len(result) |-> result[i].type])
            /\ InTypeOrder([i \in 1..Len(specs) |-> specs[i].type])

\* `def f(x, /, y=5, *, z)` was classified: a positional-only parameter
\* without default, a positional one with a default, and a keyword-only one
C30_Witness ==
  /\ ppc = "done"
  /\ ValidParameterList(sig)
  /\ Len(sig.posonly) = 1 /\ sig.posonly[1].default = NoText
  /\ Len(sig.args) = 1 /\ sig.args[1].default # NoText
  /\ sig.star = "bare"
  /\ Len(sig.kwonly) = 1
  /\ Len(result) = 3
  /\ result[2].default_value # NoText
  /\ iter_arguments(ast_arguments(sig))[2].default # NoText
  /\ result[3].type = "KEYWORD_ONLY"

(***************************************************************************)
(* Class definitions: Parser.parse_classdef of parser.py, and              *)
(* Parser._extract_metaclass and Parser.parse of parser2.py                *)
(***************************************************************************)
\* the largest number of statements in a class body
MaxBody == 3

\* the values and annotations written in the body, by line
ValueTexts == <<"A", "B", "C", "D", "E">>

TypeTexts == <<"T1", "T2", "T3", "T4", "T5">>

\* the statements of a class body: a function definition, an assignment, an
\* annotation without a value, or an annotated assignment; line is the
\* position of the statement in the body, ivars the attributes of self the
\* body of a method assigns, within the place of a declaration inside the
\* statement of that line (0 for the statement itself)
Statement(k, name, hasValue, hasAnnotation, line) ==
  [kind |-> k, name |-> name,
   value |-> IF hasValue THEN ValueTexts[line] ELSE NoText,
   datatype |-> IF hasAnnotation THEN TypeTexts[line] ELSE NoText,
   line |-> line, within |-> 0, ivars |-> <<>>]

\* def f(self): self.<a> = ... for each attribute a
Method(attributes, line) ==
  [Statement("function", "f", FALSE, FALSE, line) EXCEPT !.ivars = attributes]

StatementsAt(line) ==
  {Method(<<>>, line), Method(<<"y">>, line)}
    \cup {Statement("data", n, va[1], va[2], line) :
            n \in {"x", "__metaclass__"},
            va \in {<<TRUE, FALSE>>, <<TRUE, TRUE>>, <<FALSE, TRUE>>}}

\* a metaclass= keyword among the class arguments
KeywordTexts == {NoText, "K"}

\* parse_classdef_arglist / parse_classdef_rawargs: the value of the
\* metaclass keyword, None if there is none
parse_classdef_args(keyword) == keyword

\* parse_declaration for a statement of the suite: the member it makes
parse_declaration(stmt) == stmt

\* parse_classdef: the member gives the metaclass and is not appended
sets_metaclass(mc, member) ==
  mc = NoText /\ member.kind = "data" /\ member.name = "__metaclass__"

\* parse_classdef of parser.py: the arguments of the class
ParseClassArgs ==
  /\ cpc = "start"
  /\ cparser = "parser"
  /\ metaclass' = parse_classdef_args(ckeyword)
  /\ cmembers' = <<>>
  /\ cpos' = 1
  /\ cpc' = "suite"
  /\ UNCHANGED <<cparser, ckeyword, cbody>>
  /\ UNCHANGED <<treeVars, filterVars, paramVars, serialVars, extraVars>>

\* parse_classdef of parser.py: one child of the suite
ParseClassMember ==
  /\ cpc = "suite"
  /\ cparser = "parser"
  /\ cpos <= Len(cbody)
  /\ LET member == parse_declaration(cbody[cpos])
     IN IF sets_metaclass(metaclass, member)
        THEN /\ metaclass' = member.value
             /\ cmembers' = cmembers
        ELSE /\ cmembers' = Append(cmembers, member)
             /\ metaclass' = metaclass
  /\ cpos' = cpos + 1
  /\ UNCHANGED <<cparser, ckeyword, cbody, cpc>>
  /\ UNCHANGED <<treeVars, filterVars, paramVars, serialVars, extraVars>>

\* parse_classdef of parser.py: class_.metaclass = metaclass; return class_
ParseClassReturn ==
  /\ cpc = "suite"
  /\ cparser = "parser"
  /\ cpos > Len(cbody)
  /\ cpc' = "done"
  /\ UNCHANGED <<cparser, ckeyword, cbody, cpos, metaclass, cmembers>>
  /\ UNCHANGED <<treeVars, filterVars, paramVars, serialVars, extraVars>>

\* state.get_local(definition, "__metaclass__"): the definitions of the name
\* in the class body, in source order
get_local(body, name) == SelectSeq(body, LAMBDA st : st.name = name)

\* Parser._extract_metaclass of parser2.py
extract_metaclass(keyword, body) ==
  IF keyword # NoText THEN keyword
  ELSE IF get_local(body, "__metaclass__") = <<>> THEN NoText
  ELSE get_local(body, "__metaclass__")[1].value

\* Parser.parse of parser2.py, the filter on the members of a class
yields_member(mc, m) == mc = NoText \/ m.name # "__metaclass__"

\* sorted(defs, key=lineno): a stable sort by line
RECURSIVE sorted_by_lineno(_)
sorted_by_lineno(defs) ==
  IF defs = <<>> THEN <<>>
  ELSE LET least == CHOOSE i \in 1..Len(defs) :
                      /\ \A j \in 1..Len(defs) : defs[i].line <= defs[j].line
                      /\ \A j \in 1..(i - 1) : defs[j].line # defs[i].line
       IN <<defs[least]>> \o
            sorted_by_lineno([j \in 1..(Len(defs) - 1) |->
                                IF j < least THEN defs[j] ELSE defs[j + 1]])

\* Parser._yield_members of parser2.py: the definitions grouped by name,
\* chained group after group and sorted by line
yield_members(body) ==
  LET first(l) == \A k \in 1..(l - 1) : body[k].name # body[l].name
      groups == [l \in 1..Len(body) |->
                   IF first(l) THEN get_local(body, body[l].name) ELSE <<>>]
  IN sorted_by_lineno(Concat(groups))

\* Parser._parse_ivar: the Variable of the j-th assignment to an attribute of
\* self in a method
parse_ivar(method, j) ==
  [Statement("data", method.ivars[j], TRUE, FALSE, method.line) EXCEPT !.within = j]

\* Parser._compute_instance_vars: the assignments to attributes of self in
\* the methods of the class body, method after method
compute_instance_vars(body) ==
  Concat([l \in 1..Len(body) |->
            IF body[l].kind = "function"
            THEN [j \in 1..Len(body[l].ivars) |-> parse_ivar(body[l], j)]
            ELSE <<>>])

\* Parser.parse of parser2.py for a class: the list given as members
class_members(mc, body) ==
  SelectSeq(yield_members(body), LAMBDA m : yields_member(mc, m))
    \o compute_instance_vars(body)

\* Parser.parse of parser2.py for a class: metaclass = _extract_metaclass(...)
ExtractMetaclass ==
  /\ cpc = "start"
  /\ cparser = "parser2"
  /\ metaclass' = extract_metaclass(ckeyword, cbody)
  /\ cpc' = "suite"
  /\ UNCHANGED <<cparser, ckeyword, cbody, cpos, cmembers>>
  /\ UNCHANGED <<treeVars, filterVars, paramVars, serialVars, extraVars>>

\* Parser.parse of parser2.py for a class: the members, and the Class
Parser2Members ==
  /\ cpc = "suite"
  /\ cparser = "parser2"
  /\ cmembers' = class_members(metaclass, cbody)
  /\ cpos' = Len(cbody) + 1
  /\ cpc' = "done"
  /\ UNCHANGED <<cparser, ckeyword, cbody, metaclass>>
  /\ UNCHANGED <<treeVars, filterVars, paramVars, serialVars, extraVars>>

\* a class body of at most MaxBody statements
IsBody(b) ==
  \E n \in 0..MaxBody : \E f \in [1..n -> UNION {StatementsAt(l) : l \in 1..MaxBody}] :
    /\ \A l \in 1..n : f[l].line = l
    /\ b = f

InitClass ==
  /\ cparser \in {"parser", "parser2"}
  /\ ckeyword \in KeywordTexts
  /\ IsBody(cbody)
  /\ cpos = 1
  /\ metaclass = NoText
  /\ cmembers = <<>>
  /\ cpc = "start"
  /\ TreeIdle
  /\ FilterIdle
  /\ ParamsIdle
  /\ SerialIdle
  /\ ExtraIdle

NextClass ==
  \/ ParseClassArgs
  \/ ParseClassMember
  \/ ParseClassReturn
  \/ ExtractMetaclass
  \/ Parser2Members

SpecClass == InitClass /\ [][NextClass]_vars

(***************************************************************************)
(* Properties of class definitions (SpecClass)                             *)
(***************************************************************************)
\* the assignments to __metaclass__ in the body: statements with a value
MetaclassAssignments ==
  {l \in 1..Len(cbody) : cbody[l].kind = "data" /\ cbody[l].name = "__metaclass__"
                          /\ cbody[l].value # NoText}

FirstAssignment == CHOOSE l \in MetaclassAssignments : \A k \in MetaclassAssignments : l <= k

EmittedLines == {cmembers[j].line : j \in 1..Len(cmembers)}

\* C10: the Class that was returned has the value of the metaclass= keyword
\* as its metaclass when there is one; when there is none and the body
\* assigns __metaclass__, it has the value of that assignment, and the
\* assignment is not among the members.
C10_MetaclassPrecedence ==
  cpc = "done" =>
    /\ ckeyword # NoText => metaclass = ckeyword
    /\ ckeyword = NoText /\ MetaclassAssignments # {} =>
         /\ metaclass = cbody[FirstAssignment].value
         /\ FirstAssignment \notin EmittedLines

\* a declaration stands before another one in the source
DeclaredBefore(a, b) ==
  \/ a.line < b.line
  \/ a.line = b.line /\ a.within < b.within

\* C22: in the Class that was returned, of any two members the one that is
\* declared earlier in the source comes first, the instance variables that
\* the methods of the class assign included.
C22_DeclarationOrder ==
  cpc = "done" =>
    \A i \in 1..Len(cmembers) : \A j \in (i + 1)..Len(cmembers) :
      DeclaredBefore(cmembers[i], cmembers[j])

\* the statements of the body that name __metaclass__ and are not functions
MetaclassStatements ==
  {l \in 1..Len(cbody) : cbody[l].kind = "data" /\ cbody[l].name = "__metaclass__"}

\* the statements of the body that are among the members
EmittedStatements ==
  {cmembers[j].line : j \in {k \in 1..Len(cmembers) : cmembers[k].within = 0}}

\* C29: a statement of the class body that names __metaclass__ is missing
\* from the members of the returned Class only when the Class has a metaclass
\* and that metaclass is the value of this very statement: there is no
\* metaclass= keyword, the statement assigns a value, and no earlier
\* assignment to __metaclass__ was used; in every other case it is a member.
C29_MetaclassMemberOmitted ==
  cpc = "done" =>
    \A l \in MetaclassStatements :
      l \notin EmittedStatements =>
        /\ metaclass # NoText
        /\ ckeyword = NoText
        /\ cbody[l].value = metaclass
        /\ l = FirstAssignment

(***************************************************************************)
(* Serialization: dump_module and load_module of                           *)
(* src/docspec/src/docspec/__init__.py, with the field tables of the data  *)
(* classes and the sparse encoding of databind.json                        *)
(***************************************************************************)
\* the largest number of API objects in a module that is dumped
MaxObjects == 3

\* a value of type Optional[T]: None, or a value of T
NoValue == <<"None">>

Some(v) == <<"Some", v>>

\* the value of an Optional that is not None
Value(opt) == opt[2]

\* enum Argument.Type, by value
ArgumentTypeValues == 0..4

\* the sets of Argument.Type values an old document writes by historical name
OldTypeSets == {ArgumentTypeValues, {1}, {0, 2}, {3, 4}}

\* the names an Argument.Type value is read from; the first one is written
ArgumentTypeAliases ==
  <<<<"POSITIONAL_ONLY", "PositionalOnly">>,
    <<"POSITIONAL", "Positional">>,
    <<"POSITIONAL_REMAINDER", "PositionalRemainder">>,
    <<"KEYWORD_ONLY", "KeywordOnly">>,
    <<"KEYWORD_REMAINDER", "KeywordRemainder">>>>

\* the members of VariableSemantic, FunctionSemantic and ClassSemantic
SemanticNames ==
  [data |-> <<"INSTANCE_VARIABLE", "CLASS_VARIABLE", "CONSTANT">>,
   function |-> <<"ABSTRACT", "FINAL", "COROUTINE", "NO_RETURN", "INSTANCE_METHOD",
                  "CLASS_METHOD", "STATIC_METHOD", "PROPERTY_GETTER", "PROPERTY_SETTER",
                  "PROPERTY_DELETER">>,
   class |-> <<"INTERFACE", "ABSTRACT", "FINAL", "ENUM">>]

\* how much of an object is filled in: every optional field None and every
\* list empty, the optional lists empty instead of None, or everything set
Fills == {"unset", "empty", "set"}

OptionalText(fill, text) == IF fill = "set" THEN Some(text) ELSE NoValue

OptionalList(fill, list) ==
  IF fill = "unset" THEN NoValue ELSE IF fill = "empty" THEN Some(<<>>) ELSE Some(list)

ListOf(fill, list) == IF fill = "set" THEN list ELSE <<>>

\* docspec.Location
MkLocation(line, fill) ==
  [filename |-> "test.py", lineno |-> line,
   endlineno |-> IF fill = "set" THEN Some(line + 1) ELSE NoValue]

\* docspec.Docstring
MkDocstring(line, fill) == [location |-> MkLocation(line, fill), content |-> "text"]

\* docspec.Decoration
MkDecoration(line, fill) ==
  [location |-> MkLocation(line, fill), name |-> "decorator",
   args |-> OptionalText(fill, "(1)"), arglist |-> OptionalList(fill, <<"1">>)]

MkDecorations(line, fill) ==
  OptionalList(fill, <<MkDecoration(line, "set"), MkDecoration(line, "empty"),
                       MkDecoration(line, "unset")>>)

\* docspec.Argument
MkArgument(line, type, fill) ==
  [location |-> MkLocation(line, fill), name |-> "arg", type |-> type,
   decorations |-> MkDecorations(line, fill),
   datatype |-> OptionalText(fill, "int"),
   default_value |-> OptionalText(fill, "3")]

\* one Argument of each Argument.Type
MkArguments(line) ==
  [t \in 1..5 |-> MkArgument(line, t - 1, IF t = 2 THEN "set" ELSE IF t = 3 THEN "empty" ELSE "unset")]

\* the fields of ApiObject, and the class of the object
MkApiObject(k, line, fill) ==
  [kind |-> k, location |-> MkLocation(line, fill), name |-> "name",
   docstring |-> IF fill = "set" THEN Some(MkDocstring(line, fill)) ELSE NoValue]

\* r, with the fields of s added
Extend(r, s) ==
  [f \in DOMAIN r \cup DOMAIN s |-> IF f \in DOMAIN s THEN s[f] ELSE r[f]]

\* docspec.Variable, Indirection, Function, Class and Module
MkObject(k, line, fill, mem) ==
  CASE k = "data" ->
         Extend(MkApiObject(k, line, fill),
                [datatype |-> OptionalText(fill, "int"), value |-> OptionalText(fill, "42"),
                 modifiers |-> ListOf(fill, <<"final">>),
                 semantic_hints |-> ListOf(fill, <<0, 1, 2>>)])
    [] k = "indirection" ->
         Extend(MkApiObject(k, line, fill), [target |-> "typing.Union"])
    [] k = "function" ->
         Extend(MkApiObject(k, line, fill),
                [modifiers |-> OptionalList(fill, <<"async">>),
                 args |-> ListOf(fill, MkArguments(line)),
                 return_type |-> OptionalText(fill, "None"),
                 decorations |-> MkDecorations(line, fill),
                 semantic_hints |-> ListOf(fill, <<0, 5, 9>>)])
    [] k = "class" ->
         Extend(MkApiObject(k, line, fill),
                [metaclass |-> OptionalText(fill, "ABCMeta"),
                 bases |-> OptionalList(fill, <<"object">>),
                 decorations |-> MkDecorations(line, fill),
                 members |-> mem,
                 modifiers |-> ListOf(fill, <<"final">>),
                 semantic_hints |-> ListOf(fill, <<0, 1, 2, 3>>)])
    [] k = "module" ->
         Extend(MkApiObject(k, line, fill), [members |-> mem])

\* the object tree below node i of a shape
RECURSIVE MkTree(_, _, _, _)
MkTree(k, mem, fill, i) ==
  MkObject(k[i], i, fill[i], [j \in 1..Len(mem[i]) |-> MkTree(k, mem, fill, mem[i][j])])

\* the fields that are not required, with their defaults: an Optional field
\* is None when it is absent, a list with a default_factory is empty
Defaults ==
  [Location |-> [endlineno |-> NoValue],
   Docstring |-> <<>>,
   Decoration |-> [args |-> NoValue, arglist |-> NoValue],
   Argument |-> [decorations |-> NoValue, datatype |-> NoValue, default_value |-> NoValue],
   data |-> [docstring |-> NoValue, datatype |-> NoValue, value |-> NoValue,
             modifiers |-> <<>>, semantic_hints |-> <<>>],
   indirection |-> [docstring |-> NoValue],
   function |-> [docstring |-> NoValue, modifiers |-> NoValue, return_type |-> NoValue,
                 decorations |-> NoValue, semantic_hints |-> <<>>],
   class |-> [docstring |-> NoValue, metaclass |-> NoValue, bases |-> NoValue,
              decorations |-> NoValue, modifiers |-> <<>>, semantic_hints |-> <<>>],
   module |-> [docstring |-> NoValue]]

\* the unions of the members lists: discriminator |-> class
MemberType == {"data", "function", "class", "indirection"}

ModuleMemberType == {"data", "function", "class", "module", "indirection"}

\* the fields of obj that are written: all but the ones that hold their default
Written(obj, defaults) ==
  {f \in DOMAIN obj \ {"kind"} : f \notin DOMAIN defaults \/ obj[f] # defaults[f]}

\* an absent field read as None, whatever its default
field_or_none(doc, defaults, f) == IF f \in DOMAIN doc THEN doc[f] ELSE NoValue

\* a field of a document, or the default of the field when it is absent
Field(doc, defaults, f) == IF f \in DOMAIN doc THEN doc[f] ELSE defaults[f]

\* an enum member by name
dump_enum(names, value) == names[value + 1]

load_enum(names, text) == (CHOOSE i \in 1..Len(names) : names[i] = text) - 1

\* Argument.Type written by the last of its aliases
dump_argument_type_last_alias(value) ==
  ArgumentTypeAliases[value + 1][Len(ArgumentTypeAliases[value + 1])]

\* Argument.Type: written by its first alias, read by any of them
dump_argument_type(value) == ArgumentTypeAliases[value + 1][1]

load_argument_type(text) ==
  (CHOOSE i \in 1..Len(ArgumentTypeAliases) : text \in Range(ArgumentTypeAliases[i])) - 1

dump_Location(l) ==
  [f \in Written(l, Defaults.Location) |-> IF f = "endlineno" THEN Value(l[f]) ELSE l[f]]

load_Location(doc) ==
  [filename |-> doc.filename, lineno |-> doc.lineno,
   endlineno |-> IF "endlineno" \in DOMAIN doc THEN Some(doc.endlineno) ELSE Defaults.Location.endlineno]

dump_Docstring(d) == [location |-> dump_Location(d.location), content |-> d.content]

load_Docstring(doc) == [location |-> load_Location(doc.location), content |-> doc.content]

dump_Decoration(d) ==
  [f \in Written(d, Defaults.Decoration) |->
     IF f = "location" THEN dump_Location(d[f])
     ELSE IF f \in {"args", "arglist"} THEN Value(d[f])
     ELSE d[f]]

load_Decoration(doc) ==
  [location |-> load_Location(doc.location), name |-> doc.name,
   args |-> IF "args" \in DOMAIN doc THEN Some(doc.args) ELSE Defaults.Decoration.args,
   arglist |-> IF "arglist" \in DOMAIN doc THEN Some(doc.arglist) ELSE Defaults.Decoration.arglist]

dump_decorations(ds) == [j \in 1..Len(ds) |-> dump_Decoration(ds[j])]

load_decorations(docs) == [j \in 1..Len(docs) |-> load_Decoration(docs[j])]

dump_Argument(a) ==
  [f \in Written(a, Defaults.Argument) |->
     IF f = "location" THEN dump_Location(a[f])
     ELSE IF f = "type" THEN dump_argument_type(a[f])
     ELSE IF f = "decorations" THEN dump_decorations(Value(a[f]))
     ELSE IF f \in {"datatype", "default_value"} THEN Value(a[f])
     ELSE a[f]]

load_Argument(doc) ==
  [location |-> load_Location(doc.location), name |-> doc.name,
   type |-> load_argument_type(doc.type),
   decorations |-> IF "decorations" \in DOMAIN doc THEN Some(load_decorations(doc.decorations))
                   ELSE Defaults.Argument.decorations,
   datatype |-> IF "datatype" \in DOMAIN doc THEN Some(doc.datatype) ELSE Defaults.Argument.datatype,
   default_value |-> IF "default_value" \in DOMAIN doc THEN Some(doc.default_value)
                     ELSE Defaults.Argument.default_value]

\* the document of an API object, without a discriminator
RECURSIVE dump_ApiObject(_)
\* a member of a members list: the document of the object with the
\* discriminator of its class in the union, in the "type" key
dump_member(union, o) ==
  IF o.kind \in union THEN Extend(dump_ApiObject(o), [type |-> o.kind])
  ELSE [type |-> "error"]

dump_ApiObject(o) ==
  [f \in Written(o, Defaults[o.kind]) |->
     IF f = "location" THEN dump_Location(o[f])
     ELSE IF f = "docstring" THEN dump_Docstring(Value(o[f]))
     ELSE IF f = "members"
       THEN [j \in 1..Len(o[f]) |->
               dump_member(IF o.kind = "module" THEN ModuleMemberType ELSE MemberType, o[f][j])]
     ELSE IF f = "args" THEN [j \in 1..Len(o[f]) |-> dump_Argument(o[f][j])]
     ELSE IF f = "decorations" THEN dump_decorations(Value(o[f]))
     ELSE IF f = "semantic_hints"
       THEN [j \in 1..Len(o[f]) |-> dump_enum(SemanticNames[o.kind], o[f][j])]
     ELSE IF f \in DOMAIN Defaults[o.kind] /\ Defaults[o.kind][f] = NoValue THEN Value(o[f])
     ELSE o[f]]

\* an Optional field that holds text or a list of text
load_optional(doc, defaults, f) == IF f \in DOMAIN doc THEN Some(doc[f]) ELSE defaults[f]

\* a document read as an object of class k
RECURSIVE load_ApiObject(_, _)
\* a member of a members list; a discriminator the union lacks gives an
\* object of no class instead of an error
load_member_lenient(union, doc) ==
  IF doc.type \in union THEN load_ApiObject(doc.type, doc) ELSE [kind |-> "unknown"]

\* a member of a members list, its class chosen by the discriminator
load_member(union, doc) ==
  IF doc.type \in union THEN load_ApiObject(doc.type, doc) ELSE [kind |-> "error"]

load_hints(k, doc) ==
  IF "semantic_hints" \in DOMAIN doc
  THEN [j \in 1..Len(doc.semantic_hints) |-> load_enum(SemanticNames[k], doc.semantic_hints[j])]
  ELSE Defaults[k].semantic_hints

load_ApiObject(k, doc) ==
  LET d == Defaults[k]
      base == [kind |-> k, location |-> load_Location(doc.location), name |-> doc.name,
               docstring |-> IF "docstring" \in DOMAIN doc THEN Some(load_Docstring(doc.docstring))
                             ELSE d.docstring]
      decorations == IF "decorations" \in DOMAIN doc THEN Some(load_decorations(doc.decorations))
                     ELSE d.decorations
      mem == [j \in 1..Len(doc.members) |->
                load_member(IF k = "module" THEN ModuleMemberType ELSE MemberType, doc.members[j])]
  IN CASE k = "data" ->
            Extend(base, [datatype |-> load_optional(doc, d, "datatype"),
                          value |-> load_optional(doc, d, "value"),
                          modifiers |-> Field(doc, d, "modifiers"),
                          semantic_hints |-> load_hints(k, doc)])
       [] k = "indirection" -> Extend(base, [target |-> doc.target])
       [] k = "function" ->
            Extend(base, [modifiers |-> load_optional(doc, d, "modifiers"),
                          args |-> [j \in 1..Len(doc.args) |-> load_Argument(doc.args[j])],
                          return_type |-> load_optional(doc, d, "return_type"),
                          decorations |-> decorations,
                          semantic_hints |-> load_hints(k, doc)])
       [] k = "class" ->
            Extend(base, [metaclass |-> load_optional(doc, d, "metaclass"),
                          bases |-> load_optional(doc, d, "bases"),
                          decorations |-> decorations,
                          members |-> mem,
                          modifiers |-> Field(doc, d, "modifiers"),
                          semantic_hints |-> load_hints(k, doc)])
       [] k = "module" -> Extend(base, [members |-> mem])

\* databind.json.dump(module, Module)
databind_dump(module) == dump_ApiObject(module)

\* databind.json.load(source, Module)
databind_load(doc) == load_ApiObject("module", doc)

\* dump_module(module) without a target: the plain structured data
DumpModule ==
  /\ spc = "built"
  /\ swire' = databind_dump(smodule)
  /\ spc' = "dumped"
  /\ UNCHANGED <<smodule, sloaded, sredump>>
  /\ UNCHANGED <<treeVars, filterVars, paramVars, classVars, extraVars>>

\* the historical name of an Argument.Type member (before version 1.2.0)
old_argument_type(text) ==
  LET i == CHOOSE i \in 1..Len(ArgumentTypeAliases) : text \in Range(ArgumentTypeAliases[i])
  IN ArgumentTypeAliases[i][Len(ArgumentTypeAliases[i])]

\* the document an earlier version wrote for the same Module: the types in
\* `old` of the arguments of every function carry their historical name
RECURSIVE OldDocumentOf(_, _)
OldDocumentOf(doc, old) ==
  [f \in DOMAIN doc |->
     IF f = "members" THEN [j \in 1..Len(doc[f]) |-> OldDocumentOf(doc[f][j], old)]
     ELSE IF f = "args"
       THEN [j \in 1..Len(doc[f]) |->
               IF load_argument_type(doc[f][j].type) \in old
               THEN [doc[f][j] EXCEPT !.type = old_argument_type(doc[f][j].type)]
               ELSE doc[f][j]]
     ELSE doc[f]]

\* the places of the members of a document: the indices that lead to them
RECURSIVE MemberPaths(_)
MemberPaths(doc) ==
  IF "members" \notin DOMAIN doc THEN {}
  ELSE UNION {{<<j>>} \cup {<<j>> \o p : p \in MemberPaths(doc.members[j])} :
                j \in 1..Len(doc.members)}

RECURSIVE MemberAt(_, _)
MemberAt(doc, place) ==
  IF place = <<>> THEN doc ELSE MemberAt(doc.members[Head(place)], Tail(place))

\* the document with another discriminator at one member
RECURSIVE Retagged(_, _, _)
Retagged(doc, place, tag) ==
  LET j == Head(place)
      m == doc.members[j]
  IN [doc EXCEPT !.members =
        [doc.members EXCEPT ![j] = IF Len(place) = 1 THEN [m EXCEPT !.type = tag]
                                   ELSE Retagged(m, Tail(place), tag)]]

\* a discriminator no union names, and one only the members of a Module carry
ForeignTags(doc, place) ==
  {"unknown"} \cup
    (IF Len(place) > 1 /\ MemberAt(doc, SubSeq(place, 1, Len(place) - 1)).type = "class"
     THEN {"module"} ELSE {})

\* the union converter found no class for a discriminator somewhere in the
\* document: databind.json.load raises and returns nothing
RECURSIVE conversion_failed(_)
conversion_failed(o) ==
  \/ o.kind = "error"
  \/ /\ "members" \in DOMAIN o
     /\ \E j \in 1..Len(o.members) : conversion_failed(o.members[j])

\* a document of a version before 1.2.0 in place of the dumped one
OldDocument ==
  /\ spc = "dumped"
  /\ \E old \in OldTypeSets : swire' = OldDocumentOf(swire, old)
  /\ spc' = "old"
  /\ UNCHANGED <<smodule, sloaded, sredump>>
  /\ UNCHANGED <<treeVars, filterVars, paramVars, classVars, extraVars>>

\* a document in which one member carries a discriminator its union lacks
ForeignDocument ==
  /\ spc = "dumped"
  /\ \E place \in MemberPaths(swire) : \E tag \in ForeignTags(swire, place) :
       swire' = Retagged(swire, place, tag)
  /\ spc' = "foreign"
  /\ UNCHANGED <<smodule, sloaded, sredump>>
  /\ UNCHANGED <<treeVars, filterVars, paramVars, classVars, extraVars>>

\* load_module(source) for plain structured data
LoadModule ==
  /\ spc \in {"dumped", "old", "foreign"}
  /\ LET module == databind_load(swire)
     IN IF conversion_failed(module)
        THEN /\ spc' = "raised"
             /\ sloaded' = sloaded
        ELSE /\ spc' = "loaded"
             /\ sloaded' = module
  /\ UNCHANGED <<smodule, swire, sredump>>
  /\ UNCHANGED <<treeVars, filterVars, paramVars, classVars, extraVars>>

\* dump_module(module) of the Module load_module returned
DumpLoaded ==
  /\ spc = "loaded"
  /\ sredump' = databind_dump(sloaded)
  /\ spc' = "redumped"
  /\ UNCHANGED <<smodule, swire, sloaded>>
  /\ UNCHANGED <<treeVars, filterVars, paramVars, classVars, extraVars>>

\* a valid Module tree of at most MaxObjects objects
InitSerial ==
  /\ \E n \in 1..MaxObjects : \E ow \in [2..n -> 1..MaxObjects] :
       \E k \in [1..n -> ApiObjectKinds] : \E fill \in [1..n -> Fills] :
         /\ ValidShape(n, ow, k)
         /\ smodule = MkTree(k, [i \in 1..n |-> SeqOfSet({j \in 2..n : ow[j] = i})], fill, 1)
  /\ swire = <<>>
  /\ sloaded = <<>>
  /\ sredump = <<>>
  /\ spc = "built"
  /\ TreeIdle
  /\ FilterIdle
  /\ ParamsIdle
  /\ ClassIdle
  /\ ExtraIdle

NextSerial ==
  \/ DumpModule
  \/ OldDocument
  \/ ForeignDocument
  \/ LoadModule
  \/ DumpLoaded

SpecSerial == InitSerial /\ [][NextSerial]_vars

(***************************************************************************)
(* Properties of serialization (SpecSerial)                                *)
(***************************************************************************)
\* C1: the Module that load_module returns for the data dump_module returned
\* is equal to the Module that was dumped, field by field (the objects hold no
\* parent here: the parent is not a field and load_module sets it again).
C1_RoundTrip == spc = "loaded" => sloaded = smodule

\* a Module with a Class in it that holds a Function: the Class has every
\* optional field unset, so its document has no metaclass key; the Function
\* has them set and one argument of each type; the Module was dumped and
\* loaded again
C1_Witness ==
  /\ spc = "loaded"
  /\ Len(smodule.members) = 1
  /\ smodule.members[1].kind = "class"
  /\ smodule.members[1].metaclass = NoValue
  /\ Len(smodule.members[1].members) = 1
  /\ smodule.members[1].members[1].kind = "function"
  /\ smodule.members[1].members[1].modifiers # NoValue
  /\ Len(smodule.members[1].members[1].args) = 5
  /\ swire.members[1].type = "class"
  /\ "metaclass" \notin DOMAIN swire.members[1]
  /\ swire.members[1].members[1].args[2].type = "POSITIONAL"
  /\ sloaded = smodule

\* every member of the document carries a discriminator its owner admits:
\* data, indirection, function and class in a Class, these and module in a
\* Module
RECURSIVE WellTagged(_, _)
WellTagged(doc, owner) ==
  "members" \in DOMAIN doc =>
    \A j \in 1..Len(doc.members) :
      /\ doc.members[j].type \in
           (IF owner = "module"
            THEN {"data", "indirection", "function", "class", "module"}
            ELSE {"data", "indirection", "function", "class"})
      /\ WellTagged(doc.members[j], doc.members[j].type)

\* C19: load_module returns a Module only for a document in which every
\* member carries a discriminator of its owner's union; for a member tagged
\* with a name outside data, indirection, function, class, module, and for a
\* member of a Class tagged module, it raises and no Module is returned.
C19_ForeignDiscriminatorRaises ==
  /\ spc \in {"loaded", "redumped"} => WellTagged(swire, "module")
  /\ spc \in {"dumped", "old", "foreign"} /\ ~WellTagged(swire, "module") =>
       conversion_failed(databind_load(swire))
  /\ spc = "raised" => sloaded = <<>>

\* load_module raised for a document whose first member is a class that holds
\* a member tagged module
C19_Witness ==
  /\ spc = "raised"
  /\ sloaded = <<>>
  /\ Len(smodule.members) = 1
  /\ smodule.members[1].kind = "class"
  /\ Len(smodule.members[1].members) = 1
  /\ smodule.members[1].members[1].kind = "data"
  /\ swire.members[1].type = "class"
  /\ swire.members[1].members[1].type = "module"

\* the current name of an Argument.Type member, for each historical one
CurrentName ==
  [PositionalOnly |-> "POSITIONAL_ONLY", Positional |-> "POSITIONAL",
   PositionalRemainder |-> "POSITIONAL_REMAINDER", KeywordOnly |-> "KEYWORD_ONLY",
   KeywordRemainder |-> "KEYWORD_REMAINDER"]

\* the document with every historical Argument.Type name replaced by the
\* current one
RECURSIVE Normalized(_)
Normalized(doc) ==
  [f \in DOMAIN doc |->
     IF f = "members" THEN [j \in 1..Len(doc[f]) |-> Normalized(doc[f][j])]
     ELSE IF f = "args"
       THEN [j \in 1..Len(doc[f]) |->
               IF doc[f][j].type \in DOMAIN CurrentName
               THEN [doc[f][j] EXCEPT !.type = CurrentName[doc[f][j].type]]
               ELSE doc[f][j]]
     ELSE doc[f]]

\* C20: a document that writes Argument types by their historical names
\* loads as the Module the same document with the current names loads as,
\* and dump_module of that Module writes the current names: load followed
\* by dump gives the old document with every type name made current.
C20_AliasesNormalize ==
  /\ spc \in {"loaded", "redumped"} => sloaded = databind_load(Normalized(swire))
  /\ spc = "redumped" => sredump = Normalized(swire)

\* an old document with a function of five arguments was loaded and dumped
\* again: `Positional` was read as POSITIONAL (1) and written as `POSITIONAL`
C20_Witness ==
  /\ spc = "redumped"
  /\ Len(smodule.members) = 1
  /\ smodule.members[1].kind = "function"
  /\ Len(smodule.members[1].args) = 5
  /\ swire.members[1].type = "function"
  /\ swire.members[1].args[2].type = "Positional"
  /\ swire.members[1].args[5].type = "KeywordRemainder"
  /\ sloaded.members[1].args[2].type = 1
  /\ sredump.members[1].args[2].type = "POSITIONAL"
  /\ sredump.members[1].args[5].type = "KEYWORD_REMAINDER"
  /\ sredump # swire

(***************************************************************************)
(* Import statements: Parser.parse_import,                                 *)
(* src/docspec-python/src/docspec_python/parser.py lines 351-405.          *)
(* A Python string is the sequence of its pieces: names and "." characters;*)
(* "".join and + are concatenation, so that `a.b` is <<"a", ".", "b">>.    *)
(***************************************************************************)

\* number of names one import statement lists
MaxNames == 2

\* the names a dotted path is made of, and the names `as` binds
PathNames == {"a", "b"}

AliasNames == {"x", "y"}

\* a leaf and an inner node of the blib2to3 syntax tree
SyntaxLeaf(type, value) == [type |-> type, value |-> value, children |-> <<>>]

SyntaxNode(type, nodes) == [type |-> type, value |-> "", children |-> nodes]

isLeaf(node) == node.children = <<>>

\* the nodes ns with a leaf between each two of them
RECURSIVE Separated(_, _)
Separated(ns, leaf) ==
  IF Len(ns) <= 1 THEN ns
  ELSE <<ns[1], leaf>> \o Separated(Tail(ns), leaf)

\* the node of the dotted path p: a NAME leaf, or a dotted_name of NAME and
\* DOT leaves
DottedName(p) ==
  IF Len(p) = 1 THEN SyntaxLeaf("NAME", p[1])
  ELSE SyntaxNode("dotted_name",
         Separated([i \in 1..Len(p) |-> SyntaxLeaf("NAME", p[i])], SyntaxLeaf("DOT", ".")))

\* one name of `import ...`: `a`, `a.b`, or either `as` an alias
DottedAsName(p, alias) ==
  IF alias = NoText THEN DottedName(p)
  ELSE SyntaxNode("dotted_as_name",
         <<DottedName(p), SyntaxLeaf("NAME", "as"), SyntaxLeaf("NAME", alias)>>)

\* one name of `from ... import ...`: `a`, or `a as x`
ImportAsName(name, alias) ==
  IF alias = NoText THEN SyntaxLeaf("NAME", name)
  ELSE SyntaxNode("import_as_name",
         <<SyntaxLeaf("NAME", name), SyntaxLeaf("NAME", "as"), SyntaxLeaf("NAME", alias)>>)

\* a list node, which the grammar builds only for two names or more
ListOrSingle(type, ns) ==
  IF Len(ns) = 1 THEN ns[1]
  ELSE SyntaxNode(type, Separated(ns, SyntaxLeaf("COMMA", ",")))

\* `import <names>`
ImportName(ns) ==
  SyntaxNode("import_name", <<SyntaxLeaf("NAME", "import"), ListOrSingle("dotted_as_names", ns)>>)

\* `from <dots><module> import <subject>`, the subject in parentheses or not
ImportFrom(dots, module, subject, paren) ==
  SyntaxNode("import_from",
    <<SyntaxLeaf("NAME", "from")>>
    \o [i \in 1..dots |-> SyntaxLeaf("DOT", ".")]
    \o (IF module = <<>> THEN <<>> ELSE <<DottedName(module)>>)
    \o <<SyntaxLeaf("NAME", "import")>>
    \o (IF paren THEN <<SyntaxLeaf("LPAR", "("), subject, SyntaxLeaf("RPAR", ")")>>
        ELSE <<subject>>))

\* Parser.name_to_string, lines 826-830
name_to_string(node) ==
  IF node.type = "dotted_name" THEN [i \in 1..Len(node.children) |-> node.children[i].value]
  ELSE <<node.value>>

\* text.split(".")[-1]: what follows the last "."
split_last(text) ==
  LET dots == {i \in 1..Len(text) : text[i] = "."}
      from == IF dots = {} THEN 1 ELSE (CHOOSE i \in dots : \A j \in dots : j <= i) + 1
  IN SubSeq(text, from, Len(text))

\* text.split(".")[0]: what precedes the first "."
split_first(text) ==
  LET dots == {i \in 1..Len(text) : text[i] = "."}
      to == IF dots = {} THEN Len(text) ELSE (CHOOSE i \in dots : \A j \in dots : i <= j) - 1
  IN SubSeq(text, 1, to)

endswith_dot(text) == text # <<>> /\ text[Len(text)] = "."

\* docspec.Indirection(location, name, None, target)
Indirection(name, target) == [name |-> name, target |-> target]

\* _single_import_to_indirection with the name of `import a.b` taken from
\* the front of the path
single_import_first_segment(node) ==
  IF node.type = "dotted_as_name"
    THEN Indirection(name_to_string(node.children[3]), name_to_string(node.children[1]))
  ELSE IF node.type = "dotted_name"
    THEN Indirection(split_first(name_to_string(node)), name_to_string(node))
  ELSE Indirection(<<node.value>>, <<node.value>>)

\* _single_import_to_indirection, lines 352-363 (a node of another type
\* raises RuntimeError; the grammar gives none)
single_import_to_indirection(node) ==
  IF node.type = "dotted_as_name"
    THEN Indirection(name_to_string(node.children[3]), name_to_string(node.children[1]))
  ELSE IF node.type = "dotted_name"
    THEN Indirection(split_last(name_to_string(node)), name_to_string(node))
  ELSE Indirection(<<node.value>>, <<node.value>>)

\* _from_import_to_indirection, lines 365-376
from_import_to_indirection(prefix, node) ==
  IF node.type = "import_as_name"
    THEN Indirection(name_to_string(node.children[3]),
                     prefix \o <<".">> \o name_to_string(node.children[1]))
  ELSE Indirection(name_to_string(node),
                   (IF endswith_dot(prefix) THEN prefix ELSE prefix \o <<".">>)
                   \o name_to_string(node))

\* the nodes of ns whose type is not in skip, in order
RECURSIVE Without(_, _)
Without(ns, skip) ==
  IF ns = <<>> THEN <<>>
  ELSE IF ns[1].type \in skip THEN Without(Tail(ns), skip)
  ELSE <<ns[1]>> \o Without(Tail(ns), skip)

\* lines 378-383: the nodes the generator of a plain import walks
import_name_nodes(node) ==
  LET subject_node == node.children[2]
  IN IF subject_node.type = "dotted_as_names" THEN Without(subject_node.children, {"COMMA"})
     ELSE <<subject_node>>

\* line 386: the index of the `import` keyword, counted from 0
import_index(node) ==
  (CHOOSE i \in 1..Len(node.children) :
     /\ isLeaf(node.children[i]) /\ node.children[i].type = "NAME"
     /\ node.children[i].value = "import"
     /\ \A j \in 1..(i - 1) :
          ~(isLeaf(node.children[j]) /\ node.children[j].type = "NAME"
            /\ node.children[j].value = "import")) - 1

\* line 387: "".join(name_to_string(x) for x in node.children[1:index])
import_from_prefix(node) ==
  LET idx == import_index(node)
  IN Concat([i \in 1..(idx - 1) |-> name_to_string(node.children[i + 1])])

\* lines 389-402: the nodes the generator of a from-import walks
import_from_nodes(node) ==
  LET idx == import_index(node)
      first == node.children[idx + 2]
      subject_node == IF first.type = "LPAR" THEN node.children[idx + 3] ELSE first
  IN IF subject_node.type = "import_as_names"
       THEN Without(subject_node.children, {"LPAR", "RPAR", "COMMA"})
     ELSE <<subject_node>>

\* `if node.type == syms.import_name:` up to the first yield
ParseImportName ==
  /\ ipc = "start"
  /\ istmt.type = "import_name"
  /\ ipc' = "import_name"
  /\ UNCHANGED <<istmt, iprefix, ipos, iresult>>
  /\ UNCHANGED restOfImport

\* one step of the generator of lines 380-383
YieldSingleImport ==
  /\ ipc = "import_name"
  /\ ipos <= Len(import_name_nodes(istmt))
  /\ iresult' = Append(iresult, single_import_to_indirection(import_name_nodes(istmt)[ipos]))
  /\ ipos' = ipos + 1
  /\ UNCHANGED <<istmt, iprefix, ipc>>
  /\ UNCHANGED restOfImport

\* `elif node.type == syms.import_from:` up to the first yield
ParseImportFrom ==
  /\ ipc = "start"
  /\ istmt.type = "import_from"
  /\ iprefix' = import_from_prefix(istmt)
  /\ ipc' = "import_from"
  /\ UNCHANGED <<istmt, ipos, iresult>>
  /\ UNCHANGED restOfImport

\* one step of the generator of lines 393-402
YieldFromImport ==
  /\ ipc = "import_from"
  /\ ipos <= Len(import_from_nodes(istmt))
  /\ iresult' = Append(iresult, from_import_to_indirection(iprefix, import_from_nodes(istmt)[ipos]))
  /\ ipos' = ipos + 1
  /\ UNCHANGED <<istmt, iprefix, ipc>>
  /\ UNCHANGED restOfImport

\* the generator is exhausted
ImportReturn ==
  /\ \/ ipc = "import_name" /\ ipos > Len(import_name_nodes(istmt))
     \/ ipc = "import_from" /\ ipos > Len(import_from_nodes(istmt))
  /\ ipc' = "done"
  /\ UNCHANGED <<istmt, iprefix, ipos, iresult>>
  /\ UNCHANGED restOfImport

\* dotted paths of one or two names
DottedPaths == {<<n>> : n \in PathNames} \cup {<<n, m>> : n, m \in PathNames}

\* the lists of 1..MaxNames elements of S
ListsOf(S) == UNION {[1..n -> S] : n \in 1..MaxNames}

\* the names written in an import statement: what is imported and its alias
ImportedNames(S) == ListsOf(S \X (AliasNames \cup {NoText}))

\* the import statements of the source
ImportStatements ==
  {ImportName([i \in 1..Len(l) |-> DottedAsName(l[i][1], l[i][2])]) :
     l \in ImportedNames(DottedPaths)}
  \cup
  {ImportFrom(f[1], f[2],
              ListOrSingle("import_as_names", [i \in 1..Len(l) |-> ImportAsName(l[i][1], l[i][2])]),
              paren) :
     f \in {g \in (0..2) \X (DottedPaths \cup {<<>>}) : g[1] > 0 \/ g[2] # <<>>},
     l \in ImportedNames(PathNames), paren \in BOOLEAN}
  \cup
  {ImportFrom(f[1], f[2], SyntaxLeaf("STAR", "*"), FALSE) :
     f \in {g \in (0..2) \X (DottedPaths \cup {<<>>}) : g[1] > 0 \/ g[2] # <<>>}}

InitImport ==
  /\ istmt \in ImportStatements
  /\ iprefix = <<>>
  /\ ipos = 1
  /\ iresult = <<>>
  /\ ipc = "start"
  /\ TreeIdle
  /\ FilterIdle
  /\ ParamsIdle
  /\ ClassIdle
  /\ SerialIdle
  /\ DocIdle
  /\ BatchIdle
  /\ WeakIdle
  /\ MoreIdle

NextImport ==
  \/ ParseImportName
  \/ YieldSingleImport
  \/ ParseImportFrom
  \/ YieldFromImport
  \/ ImportReturn

SpecImport == InitImport /\ [][NextImport]_vars

(***************************************************************************)
(* Properties of parse_import                                              *)
(***************************************************************************)

\* what one name of an import statement says: the dotted path (or the name)
\* that is imported, and the alias after `as`
PathOf(node) ==
  IF node.type \in {"dotted_as_name", "import_as_name"} THEN name_to_string(node.children[1])
  ELSE name_to_string(node)

AliasOf(node) ==
  IF node.type \in {"dotted_as_name", "import_as_name"} THEN node.children[3].value
  ELSE NoText

\* the parts of `from <dots><module> import`: the number of leading dots and
\* the text of the module path
FromParts(node) == SubSeq(node.children, 2, import_index(node))

LeadingDots(node) == Without(FromParts(node), {"NAME", "dotted_name"})

ModuleText(node) == Concat([i \in 1..Len(Without(FromParts(node), {"DOT"})) |->
                              name_to_string(Without(FromParts(node), {"DOT"})[i])])

\* C11 as stated: each name of a plain import yields one Indirection whose
\* name is the alias, or else the first segment of the dotted path, and whose
\* target is the full dotted path
C11_NameIsFirstSegment ==
  (ipc = "done" /\ istmt.type = "import_name") =>
    LET ns == import_name_nodes(istmt)
    IN /\ Len(iresult) = Len(ns)
       /\ \A i \in 1..Len(ns) :
            /\ iresult[i].name = (IF AliasOf(ns[i]) # NoText THEN <<AliasOf(ns[i])>>
                                  ELSE <<PathOf(ns[i])[1]>>)
            /\ iresult[i].target = PathOf(ns[i])

\* C11 amended: each name of a plain import yields one Indirection whose
\* name is the alias, or else the last segment of the dotted path, and whose
\* target is the full dotted path
C11_NameIsLastSegment ==
  (ipc = "done" /\ istmt.type = "import_name") =>
    LET ns == import_name_nodes(istmt)
    IN /\ Len(iresult) = Len(ns)
       /\ \A i \in 1..Len(ns) :
            /\ iresult[i].name = (IF AliasOf(ns[i]) # NoText THEN <<AliasOf(ns[i])>>
                                  ELSE <<PathOf(ns[i])[Len(PathOf(ns[i]))]>>)
            /\ iresult[i].target = PathOf(ns[i])

\* `import a.b, b.a as x` was parsed: a dotted path without alias whose first
\* and last segments differ, next to an aliased one
C11_Witness ==
  /\ ipc = "done"
  /\ istmt.type = "import_name"
  /\ \E i, j \in 1..Len(import_name_nodes(istmt)) :
       LET n == import_name_nodes(istmt)[i]
           m == import_name_nodes(istmt)[j]
       IN /\ n.type = "dotted_name"
          /\ PathOf(n)[1] # PathOf(n)[Len(PathOf(n))]
          /\ m.type = "dotted_as_name"
          /\ Len(PathOf(m)) > 1
          /\ iresult[i].name = <<PathOf(n)[Len(PathOf(n))]>>

\* C12: a from-import yields one Indirection per imported name, in source
\* order, named by the alias or else the original name, with the target
\* <module>.<original name>, where the leading dots of <module> are kept as
\* written; `from <module> import *` yields the single Indirection `*` with
\* target <module>.*
C12_FromImportTargets ==
  (ipc = "done" /\ istmt.type = "import_from") =>
    LET ns == import_from_nodes(istmt)
        module == ModuleText(istmt)
    IN /\ Len(iresult) = Len(ns)
       /\ \A i \in 1..Len(ns) :
            /\ iresult[i].name = (IF AliasOf(ns[i]) # NoText THEN <<AliasOf(ns[i])>>
                                  ELSE PathOf(ns[i]))
            /\ iresult[i].target =
                 [d \in 1..Len(LeadingDots(istmt)) |-> "."]
                 \o module \o (IF module = <<>> THEN <<>> ELSE <<".">>)
                 \o PathOf(ns[i])

\* C28: the target of the Indirection of a from-import does not depend on
\* the alias: two names of one statement `from M import ...` that import the
\* same name, one with `as` and one without, get the same target, for every
\* module path M, dots-only paths included
C28_TargetIgnoresAlias ==
  (ipc = "done" /\ istmt.type = "import_from") =>
    LET ns == import_from_nodes(istmt)
    IN \A i, j \in 1..Len(ns) :
         PathOf(ns[i]) = PathOf(ns[j]) => iresult[i].target = iresult[j].target

(***************************************************************************)
(* Docstrings of statements and blocks: Parser.parse, parse_declaration,   *)
(* parse_statement, get_most_recent_prefix, get_docstring_from_first_node, *)
(* get_statement_docstring, get_hashtag_docstring_from_prefix and          *)
(* prepare_docstring of src/docspec-python/src/docspec_python/parser.py.   *)
(* A block is a list of one-line statements at module level.  A statement  *)
(* has a kind, the lines above it (its prefix: "B" a blank line, "M" a     *)
(* `#:` comment, "P" a plain `#` comment) and the comment that ends its    *)
(* line ("none", "M" or "P").  A string is the sequence of its pieces:     *)
(* newlines, blanks and comments, each comment known by its place.         *)
(***************************************************************************)

\* number of statements of a block
MaxStmts == 2

\* `a = 1`, `a, b = 1, 2`, a bare string literal, `pass`
StatementKinds == {"assign", "unpack", "string", "pass"}

\* the lines written above a statement, top down, and the comment that ends
\* its line
Aboves == {<<>>, <<"B">>, <<"M">>, <<"P">>, <<"M", "B">>, <<"P", "M">>, <<"M", "P">>,
           <<"M", "B", "M">>}

CommentsOfStatement ==
  {<<a, "none">> : a \in Aboves}
  \cup {<<<<>>, "M">>, <<<<>>, "P">>, <<<<"M">>, "M">>, <<<<"B">>, "M">>}

Stmt(k, above, trailing) == [kind |-> k, above |-> above, trailing |-> trailing]

Statements == {Stmt(k, c[1], c[2]) : k \in StatementKinds, c \in CommentsOfStatement}

\* the pieces of a string
NL == [t |-> "nl", stmt |-> 0, line |-> 0]

SP == [t |-> "sp", stmt |-> 0, line |-> 0]

\* the comment on line k above statement i; line 0 is the line of the
\* statement itself
Comment(marker, i, k) == [t |-> marker, stmt |-> i, line |-> k]

isSpace(tok) == tok.t \in {"nl", "sp"}

\* the prefix of the first leaf of statement i: what is written above it
Prefix(block, i) ==
  Concat([k \in 1..Len(block[i].above) |->
            IF block[i].above[k] = "B" THEN <<NL>>
            ELSE <<Comment(block[i].above[k], i, k), NL>>])

\* the prefix of the NEWLINE leaf of statement i: the comment on its line
NewlinePrefix(block, i) ==
  IF block[i].trailing = "none" THEN <<>>
  ELSE <<SP, Comment(block[i].trailing, i, 0)>>

\* _split_statement, lines 321-349, on the children of the statement:
\* the types of the `names` nodes, and whether `value` holds anything
split_statement(stmt) ==
  IF stmt.kind = "assign" THEN [names |-> <<"NAME">>, value |-> TRUE]
  ELSE IF stmt.kind = "unpack" THEN [names |-> <<"testlist_star_expr">>, value |-> TRUE]
  ELSE IF stmt.kind = "string" THEN [names |-> <<"STRING">>, value |-> FALSE]
  ELSE [names |-> <<>>, value |-> FALSE]

\* get_most_recent_prefix, lines 697-708, for the expr_stmt (or the
\* simple_stmt) of statement i.  Without a prefix of its own the walk climbs
\* to the simple_stmt; the first statement has no previous sibling and the
\* module node no parent; otherwise the walk descends into the last children
\* of the previous statement: its NEWLINE leaf when the statement is one
\* leaf (`pass`, a string), and the last operand of its expr_stmt, which
\* follows a blank, when it is an expression statement
get_most_recent_prefix(block, i) ==
  IF Prefix(block, i) # <<>> THEN Prefix(block, i)
  ELSE IF i = 1 THEN <<>>
  ELSE IF block[i - 1].kind \in {"string", "pass"} THEN NewlinePrefix(block, i - 1)
  ELSE <<SP>>

\* text.split("\n"), each line stripped
RECURSIVE split_lines(_)
split_lines(text) ==
  LET nls == {j \in 1..Len(text) : text[j].t = "nl"}
      strip(l) == SelectSeq(l, LAMBDA tok : tok.t # "sp")
  IN IF nls = {} THEN <<strip(text)>>
     ELSE LET j == CHOOSE m \in nls : \A o \in nls : m <= o
          IN <<strip(SubSeq(text, 1, j - 1))>> \o split_lines(SubSeq(text, j + 1, Len(text)))

\* re.match(r"\s*", prefix[::-1]).group(0).count("\n")
trailing_newlines(text) ==
  LET tail == {j \in 1..Len(text) : \A m \in j..Len(text) : isSpace(text[m])}
  IN Cardinality({j \in tail : text[j].t = "nl"})

\* a docstring, or None
Docstring(content) == Some(content)

\* prepare_docstring, lines 784-807, of stripped comment lines: the markers
\* are cut off; the empty string gives None
prepare_comment_docstring(ls) ==
  IF ls = <<>> THEN NoValue
  ELSE Docstring([j \in 1..Len(ls) |-> [src |-> "comment", stmt |-> ls[j][1].stmt, line |-> ls[j][1].line]])

\* prepare_docstring of the string literal that is statement j
prepare_string_docstring(j) ==
  Docstring(<<[src |-> "string", stmt |-> j, line |-> 0]>>)

\* the loop of get_hashtag_docstring_from_prefix, lines 768-780, over
\* reversed(prefix.split("\n")) from line j down: ls holds the lines
\* collected so far in source order
RECURSIVE hashtag_loop(_, _, _, _)
hashtag_loop(all, j, ls, doc_type) ==
  IF j = 0 THEN [lines |-> ls, doc_type |-> doc_type]
  ELSE LET line == all[j]
           isComment == line # <<>> /\ line[1].t \in {"M", "P"}
       IN IF ls # <<>> /\ ~isComment THEN [lines |-> ls, doc_type |-> doc_type]
          ELSE hashtag_loop(all, j - 1,
                 IF ls # <<>> \/ line # <<>> THEN <<line>> \o ls ELSE ls,
                 IF doc_type = "None" /\ isComment
                   THEN (IF line[1].t = "M" THEN "statement" ELSE "block")
                 ELSE doc_type)

\* get_hashtag_docstring_from_prefix, lines 752-782, from the prefix on
hashtag_docstring_of(prefix) ==
  LET all == split_lines(prefix)
      r == hashtag_loop(all, Len(all), <<>>, "None")
  IN [docstring |-> prepare_comment_docstring(r.lines), doc_type |-> r.doc_type]

\* get_hashtag_docstring_from_prefix, lines 752-782
get_hashtag_docstring_from_prefix(block, i) ==
  hashtag_docstring_of(get_most_recent_prefix(block, i))

\* the test `ws.count("\n") == 1` of line 737 without its condition
one_newline_any(text) == TRUE

\* `ws.count("\n") == 1`, line 737
one_newline(text) == trailing_newlines(text) = 1

\* get_statement_docstring, lines 732-750
get_statement_docstring(block, i) ==
  LET h == get_hashtag_docstring_from_prefix(block, i)
  IN IF one_newline(get_most_recent_prefix(block, i)) /\ h.doc_type = "statement"
       THEN h.docstring
     ELSE IF i < Len(block) /\ block[i + 1].kind = "string"
       THEN prepare_string_docstring(i + 1)
     ELSE NoValue

\* find(None, parent.children, as_type=Node), line 717: the first child of
\* the block that is a Node.  The statements of a module and of a suite are
\* simple_stmt nodes; a body written on the line of its `def` or `class` is
\* itself the simple_stmt, and its first child is a Leaf for a string or
\* `pass` and an expr_stmt node for an assignment
first_node(form, block) ==
  IF form = "inline"
  THEN (IF block[1].kind \in {"string", "pass"} THEN "None" ELSE "expr_stmt")
  ELSE "simple_stmt"

\* get_docstring_from_first_node, lines 710-730, for a block of the form
\* "module" (module_level = True), "suite" or "inline"; a block always has a
\* first statement here.  The expr_stmt of an inline body follows the colon
\* and a blank
get_docstring_from_first_node(form, block, option) ==
  LET node == first_node(form, block)
  IN IF node = "simple_stmt" /\ block[1].kind = "string" THEN prepare_string_docstring(1)
     ELSE IF node = "None" /\ form # "module" THEN NoValue
     ELSE IF option
       THEN LET h == IF form = "inline" THEN hashtag_docstring_of(<<SP>>)
                     ELSE get_hashtag_docstring_from_prefix(block, 1)
            IN IF h.doc_type = "block" THEN h.docstring ELSE NoValue
     ELSE NoValue

\* docspec.Variable, named by the place of its statement
Variable(i, docstring) == [name |-> i, docstring |-> docstring]

\* parse_statement that takes the first of several targets as the name
parse_statement_first_target(block, i) ==
  LET s == split_statement(block[i])
      docstring == get_statement_docstring(block, i)
  IN IF ~s.value THEN [raised |-> "none", data |-> NoValue]
     ELSE IF Len(s.names) # 1 THEN [raised |-> "AssertionError", data |-> NoValue]
     ELSE [raised |-> "none",
           data |-> Some(Variable(i, IF docstring = NoValue
                                       THEN prepare_comment_docstring(
                                              SelectSeq(split_lines(NewlinePrefix(block, i)),
                                                        LAMBDA l : l # <<>>))
                                     ELSE docstring))]

\* parse_statement that looks at the comment on the line of the statement
\* before it asks get_statement_docstring
parse_statement_same_line_first(block, i) ==
  LET s == split_statement(block[i])
      same_line == prepare_comment_docstring(
                     SelectSeq(split_lines(NewlinePrefix(block, i)), LAMBDA l : l # <<>>))
  IN IF ~s.value THEN [raised |-> "none", data |-> NoValue]
     ELSE IF Len(s.names) # 1 THEN [raised |-> "AssertionError", data |-> NoValue]
     ELSE IF s.names[1] # "NAME" THEN [raised |-> "none", data |-> NoValue]
     ELSE [raised |-> "none",
           data |-> Some(Variable(i, IF same_line = NoValue
                                       THEN get_statement_docstring(block, i)
                                     ELSE same_line))]

\* parse_statement, lines 407-441: the Variable of statement i, None, or the
\* failure of the assertion on `names`
parse_statement(block, i) ==
  LET s == split_statement(block[i])
      docstring == get_statement_docstring(block, i)
  IN IF ~s.value THEN [raised |-> "none", data |-> NoValue]
     ELSE IF Len(s.names) # 1 THEN [raised |-> "AssertionError", data |-> NoValue]
     ELSE IF s.names[1] # "NAME" THEN [raised |-> "none", data |-> NoValue]
     ELSE [raised |-> "none",
           data |-> Some(Variable(i, IF docstring = NoValue
                                       THEN prepare_comment_docstring(
                                              SelectSeq(split_lines(NewlinePrefix(block, i)),
                                                        LAMBDA l : l # <<>>))
                                     ELSE docstring))]

\* parse_declaration, lines 284-319, of a simple_stmt: an expr_stmt goes to
\* parse_statement, any other statement gives None
parse_simple_stmt(block, i) ==
  IF block[i].kind \in {"assign", "unpack"} THEN parse_statement(block, i)
  ELSE [raised |-> "none", data |-> NoValue]

\* Parser.parse up to the loop, lines 257-272
ParseModule ==
  /\ dpc = "start"
  /\ \E option \in BOOLEAN :
       dmodule' = get_docstring_from_first_node("module", dblock, option)
  /\ dpc' = "loop"
  /\ UNCHANGED <<dblock, dpos, dmembers>>
  /\ UNCHANGED restOfDoc

\* one round of `for node in ast.children`, lines 274-279
ParseDeclaration ==
  /\ dpc = "loop"
  /\ dpos <= Len(dblock)
  /\ LET r == parse_simple_stmt(dblock, dpos)
     IN IF r.raised # "none"
          THEN /\ dpc' = r.raised
               /\ UNCHANGED <<dpos, dmembers>>
        ELSE /\ dmembers' = (IF r.data = NoValue THEN dmembers
                             ELSE Append(dmembers, Value(r.data)))
             /\ dpos' = dpos + 1
             /\ dpc' = dpc
  /\ UNCHANGED <<dblock, dmodule>>
  /\ UNCHANGED restOfDoc

\* `module.sync_hierarchy(); return module`, lines 281-282
ParseModuleReturn ==
  /\ dpc = "loop"
  /\ dpos > Len(dblock)
  /\ dpc' = "done"
  /\ UNCHANGED <<dblock, dmodule, dpos, dmembers>>
  /\ UNCHANGED restOfDoc

InitDoc ==
  /\ dblock \in UNION {[1..n -> Statements] : n \in 1..MaxStmts}
  /\ dmodule = NoValue
  /\ dpos = 1
  /\ dmembers = <<>>
  /\ dpc = "start"
  /\ TreeIdle
  /\ FilterIdle
  /\ ParamsIdle
  /\ ClassIdle
  /\ SerialIdle
  /\ ImportIdle
  /\ BatchIdle
  /\ WeakIdle
  /\ MoreIdle

NextDoc ==
  \/ ParseModule
  \/ ParseDeclaration
  \/ ParseModuleReturn

SpecDoc == InitDoc /\ [][NextDoc]_vars

(***************************************************************************)
(* Properties of the docstrings                                            *)
(***************************************************************************)

\* the member emitted for statement i, if there is one
MembersOf(i) == {j \in 1..Len(dmembers) : dmembers[j].name = i}

\* the comment lines directly above statement i, with no blank line between
\* them or between them and the statement: the places of the lines
RunAbove(block, i) ==
  {k \in 1..Len(block[i].above) : \A m \in k..Len(block[i].above) : block[i].above[m] # "B"}

\* there is such a run and its last line starts with `#:`
HasMarkedRun(block, i) ==
  block[i].above # <<>> /\ block[i].above[Len(block[i].above)] = "M"

RunDocstring(block, i) ==
  Some([j \in 1..Cardinality(RunAbove(block, i)) |->
          [src |-> "comment", stmt |-> i,
           line |-> Len(block[i].above) - Cardinality(RunAbove(block, i)) + j]])

StringFollows(block, i) == i < Len(block) /\ block[i + 1].kind = "string"

StringDocstring(j) == Some(<<[src |-> "string", stmt |-> j, line |-> 0]>>)

SameLineDocstring(i) == Some(<<[src |-> "comment", stmt |-> i, line |-> 0]>>)

C25_SameLineOnlyAsLastResort ==
  dpc = "done" =>
    \A i \in 1..Len(dblock) : \A j \in MembersOf(i) :
      dblock[i].trailing = "M" =>
        /\ dmembers[j].docstring = SameLineDocstring(i)
             <=> ~HasMarkedRun(dblock, i) /\ ~StringFollows(dblock, i)
        /\ HasMarkedRun(dblock, i) => dmembers[j].docstring = RunDocstring(dblock, i)
        /\ ~HasMarkedRun(dblock, i) /\ StringFollows(dblock, i) =>
             dmembers[j].docstring = StringDocstring(i + 1)

\* `d = None  #: ignored` followed by a string literal: the string is the
\* docstring of d
C25_Witness ==
  /\ dpc = "done"
  /\ Len(dblock) = 2
  /\ dblock[1] = Stmt("assign", <<>>, "M")
  /\ dblock[2].kind = "string"
  /\ Len(dmembers) = 1
  /\ dmembers[1].docstring = StringDocstring(2)
  /\ dmembers[1].docstring # SameLineDocstring(1)

\* the parts of a docstring, or of no docstring
Pieces(docstring) == IF docstring = NoValue THEN {} ELSE Range(Value(docstring))

\* no blank line lies between the comment on line k above statement i and
\* the statement
NoBlankBelow(block, i, k) ==
  k = 0 \/ \A m \in k..Len(block[i].above) : block[i].above[m] # "B"

\* C14: a docstring never crosses a blank line or another statement: the
\* comments in the docstring of an assignment stand directly above it (or on
\* its line), a string literal in it is the next statement with no blank
\* line between, and the docstring of the block is its first statement or a
\* comment run directly above its first statement
C14_NeverCrossesBlankOrCode ==
  dpc = "done" =>
    /\ \A j \in 1..Len(dmembers) : \A p \in Pieces(dmembers[j].docstring) :
         IF p.src = "comment"
           THEN p.stmt = dmembers[j].name /\ NoBlankBelow(dblock, p.stmt, p.line)
         ELSE /\ p.stmt = dmembers[j].name + 1
              /\ \A m \in 1..Len(dblock[p.stmt].above) : dblock[p.stmt].above[m] # "B"
    /\ \A p \in Pieces(dmodule) :
         /\ p.stmt = 1
         /\ p.src = "comment" => NoBlankBelow(dblock, 1, p.line)

\* Parser.parse as a function of the block: the members of the statements
\* from i on
RECURSIVE parse_members(_, _)
parse_members(block, i) ==
  IF i > Len(block) THEN <<>>
  ELSE LET r == parse_simple_stmt(block, i)
       IN (IF r.data = NoValue THEN <<>> ELSE <<Value(r.data)>>) \o parse_members(block, i + 1)

\* the block with `pass` in the place of every assignment that unpacks
WithoutUnpacking(block) ==
  [i \in 1..Len(block) |->
     IF block[i].kind = "unpack" THEN [block[i] EXCEPT !.kind = "pass"] ELSE block[i]]

MaxUnits == 3

\* a unit is well-formed source, malformed source, or a module name for
\* which find_module finds no file
UnitStates == {"ok", "malformed", "missing"}

BatchLoaders == {"load_python_modules", "parse_modules"}

\* the exception classes of this repository that are named ParseError
ParseErrors == {"docspec_python.parser.ParseError", "docspec_python.parser2.ParseError"}

\* what black.parsing.lib2to3_parse raises for source that the grammar
\* rejects: the library is not part of the repository.  It is not the
\* subclass that parser.py defines in lines 76-95, which only line 254
\* constructs
Lib2to3ParseFailures == {"blib2to3.pgen2.parse.ParseError", "black.parsing.InvalidInput"}

NoError == [type |-> "none", unit |-> 0, message |-> FALSE, position |-> FALSE, filename |-> FALSE]

\* an exception raised for unit i, and what it carries
Exception(type, i, position, filename) ==
  [type |-> type, unit |-> i, message |-> TRUE, position |-> position, filename |-> filename]

\* the Module extracted from unit i
ModuleOf(i) == [unit |-> i]

\* `except ParseError as exc` of parse_to_ast, line 253: ParseError is the
\* class of lines 76-95
caught_by_parse_to_ast(type) == type = "docspec_python.parser.ParseError"

\* Parser.parse_to_ast, lines 244-255, on malformed source of unit i, the
\* library raising an exception of the given type
parse_to_ast_error(type, i) ==
  IF caught_by_parse_to_ast(type)
    THEN Exception("docspec_python.parser.ParseError", i, TRUE, TRUE)
  ELSE Exception(type, i, TRUE, FALSE)

\* load_python_modules, lines 70-76: find_module for the next module name
FindModule ==
  /\ bloader = "load_python_modules"
  /\ bpc = "start"
  /\ bpos <= Len(bunits)
  /\ IF bunits[bpos] = "missing"
       THEN IF braise
              THEN /\ bpc' = "raised"
                   /\ berror' = Exception("ImportError", bpos, FALSE, FALSE)
                   /\ UNCHANGED <<bpos, bfiles>>
            ELSE /\ bpos' = bpos + 1
                 /\ UNCHANGED <<bfiles, berror, bpc>>
     ELSE /\ bfiles' = Append(bfiles, bpos)
          /\ bpos' = bpos + 1
          /\ UNCHANGED <<berror, bpc>>
  /\ UNCHANGED <<bunits, bloader, braise, byielded>>
  /\ UNCHANGED restOfBatch

\* the first loop of either loader is through
BatchCollected ==
  /\ bpc = "start"
  /\ bpos > Len(bunits)
  /\ bpc' = "yield"
  /\ bpos' = 1
  /\ UNCHANGED <<bunits, bloader, braise, bfiles, byielded, berror>>
  /\ UNCHANGED restOfBatch

\* load_python_modules, lines 86-87, with parse_python_module, lines
\* 114-133: the next file is parsed and its Module yielded
ParsePythonModule ==
  /\ bloader = "load_python_modules"
  /\ bpc = "yield"
  /\ bpos <= Len(bfiles)
  /\ IF bunits[bfiles[bpos]] = "malformed"
       THEN /\ \E type \in Lib2to3ParseFailures :
                 berror' = parse_to_ast_error(type, bfiles[bpos])
            /\ bpc' = "raised"
            /\ UNCHANGED <<bpos, byielded>>
     ELSE /\ byielded' = Append(byielded, ModuleOf(bfiles[bpos]))
          /\ bpos' = bpos + 1
          /\ UNCHANGED <<berror, bpc>>
  /\ UNCHANGED <<bunits, bloader, braise, bfiles>>
  /\ UNCHANGED restOfBatch

\* parser2.parse_modules, lines 47-62: the next ModSpec is parsed with
\* ast.parse and added to the project
AddModule ==
  /\ bloader = "parse_modules"
  /\ bpc = "start"
  /\ bpos <= Len(bunits)
  /\ IF bunits[bpos] = "malformed"
       THEN /\ berror' = Exception("docspec_python.parser2.ParseError", bpos, TRUE, TRUE)
            /\ bpc' = "raised"
            /\ UNCHANGED <<bpos, bfiles>>
     ELSE /\ bfiles' = Append(bfiles, bpos)
          /\ bpos' = bpos + 1
          /\ UNCHANGED <<berror, bpc>>
  /\ UNCHANGED <<bunits, bloader, braise, byielded>>
  /\ UNCHANGED restOfBatch

\* parser2.parse_modules, lines 64-70: the next module of the project is
\* parsed and yielded
YieldParsedModule ==
  /\ bloader = "parse_modules"
  /\ bpc = "yield"
  /\ bpos <= Len(bfiles)
  /\ byielded' = Append(byielded, ModuleOf(bfiles[bpos]))
  /\ bpos' = bpos + 1
  /\ UNCHANGED <<bunits, bloader, braise, bfiles, berror, bpc>>
  /\ UNCHANGED restOfBatch

\* the generator is exhausted
BatchReturn ==
  /\ bpc = "yield"
  /\ bpos > Len(bfiles)
  /\ bpc' = "done"
  /\ UNCHANGED <<bunits, bloader, braise, bpos, bfiles, byielded, berror>>
  /\ UNCHANGED restOfBatch

InitBatch ==
  /\ bloader \in BatchLoaders
  /\ braise \in BOOLEAN
  /\ bunits \in UNION {[1..n -> UnitStates] : n \in 1..MaxUnits}
  /\ bloader = "parse_modules" => (braise /\ \A i \in 1..Len(bunits) : bunits[i] # "missing")
  /\ bpos = 1
  /\ bfiles = <<>>
  /\ byielded = <<>>
  /\ berror = NoError
  /\ bpc = "start"
  /\ TreeIdle
  /\ FilterIdle
  /\ ParamsIdle
  /\ ClassIdle
  /\ SerialIdle
  /\ ImportIdle
  /\ DocIdle
  /\ WeakIdle
  /\ MoreIdle

NextBatch ==
  \/ FindModule
  \/ BatchCollected
  \/ ParsePythonModule
  \/ AddModule
  \/ YieldParsedModule
  \/ BatchReturn

SpecBatch == InitBatch /\ [][NextBatch]_vars

\* C16: a failure in one unit of a batch neither aborts nor corrupts the
\* others: when the loader has returned or raised, every well-formed unit
\* has yielded its Module, the one it yields when processed alone
C16_BatchIsolation ==
  bpc \in {"done", "raised"} =>
    \A i \in 1..Len(bunits) :
      bunits[i] = "ok" => \E j \in 1..Len(byielded) : byielded[j] = ModuleOf(i)

\* C17: a malformed unit yields no Module and fails with a ParseError that
\* carries the message, the position and the filename of the unit
C17_ParseErrorCarriesFilename ==
  /\ \A j \in 1..Len(byielded) : bunits[byielded[j].unit] # "malformed"
  /\ (bpc = "raised" /\ bunits[berror.unit] = "malformed") =>
       /\ berror.type \in ParseErrors
       /\ berror.message /\ berror.position /\ berror.filename

(***************************************************************************)
(* The parent reference is weak: ApiObject.parent and ApiObject.path,      *)
(* src/docspec/src/docspec/__init__.py lines 195-234.  An object lives as  *)
(* long as the caller holds it or a living object has it in its members    *)
(* list; the reference to the parent keeps nothing alive.                  *)
(***************************************************************************)

\* the objects that stay alive when the caller holds the objects of h:
\* those reached from h through members lists
RECURSIVE KeptAlive(_, _)
KeptAlive(mem, h) ==
  LET more == h \cup UNION {Range(mem[x]) : x \in h}
  IN IF more = h THEN h ELSE KeptAlive(mem, more)

\* ApiObject.parent (getter), lines 198-211, with `self._parent()` of a dead
\* reference taken for the value of the property
parent_read_dangling(par, live, x) ==
  IF par[x] # None
    THEN IF par[x] \notin live THEN [raised |-> "none", value |-> None]
         ELSE [raised |-> "none", value |-> par[x]]
  ELSE [raised |-> "none", value |-> None]

\* ApiObject.parent (getter), lines 198-211: `self._parent()` is None when
\* the referenced object was destroyed
parent_read(par, live, x) ==
  IF par[x] # None
    THEN IF par[x] \notin live THEN [raised |-> "RuntimeError", value |-> None]
         ELSE [raised |-> "none", value |-> par[x]]
  ELSE [raised |-> "none", value |-> None]

\* the loop of ApiObject.path, lines 228-232; the fuel bounds the loop of
\* the model
RECURSIVE path_loop(_, _, _, _, _)
path_loop(par, live, current, acc, fuel) ==
  IF current = None \/ fuel = 0 THEN [raised |-> "none", value |-> Reverse(acc)]
  ELSE LET r == parent_read(par, live, current)
       IN IF r.raised # "none" THEN [raised |-> r.raised, value |-> <<>>]
          ELSE path_loop(par, live, r.value, Append(acc, current), fuel - 1)

\* ApiObject.path, lines 221-234
path_read(par, live, x) == path_loop(par, live, x, <<>>, MaxNodes + 1)

\* parent and path tell objects apart only by their members lists: below
\* the Module the objects are classes and variables
WeakKinds == {"data", "class"}

\* a loader returns a Module to the caller, who holds it
LoadTree ==
  /\ wpc = "start"
  /\ op = "start"
  /\ \E n \in 1..MaxNodes : \E ow \in [2..n -> Ids] : \E k \in [1..n -> WeakKinds \cup {"module"}] :
       /\ ValidShape(n, ow, k)
       /\ \A i \in 2..n : k[i] \in WeakKinds
       /\ kind' = ShapeKind(n, k)
       /\ members' = ShapeMembers(n, ow)
       /\ \E synchronized \in BOOLEAN :
            parent' = IF synchronized
                        THEN load_module_sync(ShapeKind(n, k), ShapeMembers(n, ow), FreshParents, 1)
                      ELSE parse_modules_sync(ShapeKind(n, k), ShapeMembers(n, ow), FreshParents, 1)
       /\ walive' = 1..n
  /\ root' = 1
  /\ op' = "loaded"
  /\ wheld' = {1}
  /\ wpc' = "held"
  /\ UNCHANGED <<edits, syncedBefore, wread>>
  /\ UNCHANGED restOfWeak

\* `x = owner.members[i]`: the caller takes a reference to a living object
TakeReference(x) ==
  /\ wpc = "held"
  /\ x \in walive \ wheld
  /\ wheld' = wheld \cup {x}
  /\ UNCHANGED <<walive, wread, wpc>>
  /\ UNCHANGED treeVars
  /\ UNCHANGED restOfWeak

\* `del x`: the caller drops a reference; what nothing holds any more is
\* destroyed
DropReference(x) ==
  /\ wpc = "held"
  /\ x \in wheld
  /\ wheld' = wheld \ {x}
  /\ walive' = KeptAlive(members, wheld \ {x})
  /\ UNCHANGED <<wread, wpc>>
  /\ UNCHANGED treeVars
  /\ UNCHANGED restOfWeak

\* the caller reads x.parent
GetParent(x) ==
  /\ wpc = "held"
  /\ x \in wheld
  /\ wread' = [op |-> "parent", node |-> x] @@ parent_read(parent, walive, x)
  /\ wpc' = "read"
  /\ UNCHANGED <<wheld, walive>>
  /\ UNCHANGED treeVars
  /\ UNCHANGED restOfWeak

\* the caller reads x.path
GetPath(x) ==
  /\ wpc = "held"
  /\ x \in wheld
  /\ wread' = [op |-> "path", node |-> x] @@ path_read(parent, walive, x)
  /\ wpc' = "read"
  /\ UNCHANGED <<wheld, walive>>
  /\ UNCHANGED treeVars
  /\ UNCHANGED restOfWeak

InitWeak ==
  /\ wheld = {}
  /\ walive = {}
  /\ wread = <<>>
  /\ wpc = "start"
  /\ TreeIdle
  /\ FilterIdle
  /\ ParamsIdle
  /\ ClassIdle
  /\ SerialIdle
  /\ ImportIdle
  /\ DocIdle
  /\ BatchIdle
  /\ MoreIdle

NextWeak ==
  \/ LoadTree
  \/ \E x \in Ids : TakeReference(x)
  \/ \E x \in Ids : DropReference(x)
  \/ \E x \in Ids : GetParent(x)
  \/ \E x \in Ids : GetPath(x)

SpecWeak == InitWeak /\ [][NextWeak]_vars

\* the objects on the way up from x that are read before a destroyed parent
\* is met: x, its parent, and so on
RECURSIVE StaleAbove(_, _, _, _)
StaleAbove(par, live, x, fuel) ==
  IF x = None \/ fuel = 0 THEN FALSE
  ELSE IF par[x] # None /\ par[x] \notin live THEN TRUE
  ELSE StaleAbove(par, live, par[x], fuel - 1)

\* C18: reading parent gives None when no parent is set, the parent while
\* that object is alive, and raises RuntimeError, never None, when the parent
\* that was set has been destroyed; path raises the same error when it meets
\* such a parent and never returns a truncated list
C18_StaleParentRaises ==
  [][\A x \in Ids :
       /\ GetParent(x) =>
            /\ parent[x] = None => (wread'.raised = "none" /\ wread'.value = None)
            /\ (parent[x] # None /\ parent[x] \in walive) =>
                 (wread'.raised = "none" /\ wread'.value = parent[x])
            /\ (parent[x] # None /\ parent[x] \notin walive) =>
                 wread'.raised = "RuntimeError"
       /\ GetPath(x) =>
            IF StaleAbove(parent, walive, x, MaxNodes + 1)
              THEN wread'.raised = "RuntimeError"
            ELSE wread'.raised = "none" /\ wread'.value = path(parent, x)
    ]_vars

\* path was read on an object that the caller holds and whose parent, once
\* set, has been destroyed
C18_Witness ==
  /\ wpc = "read"
  /\ wread # <<>>
  /\ wread.op = "path"
  /\ wread.raised = "RuntimeError"
  /\ wread.node \in wheld
  /\ parent[wread.node] # None
  /\ parent[wread.node] \notin walive

(***************************************************************************)
(* A stream of modules: dump_module(module, target) and load_modules(fp),  *)
(* src/docspec/src/docspec/__init__.py lines 478-501 and 520-540.          *)
(* A text is the sequence of its characters; LF and CR are the two line    *)
(* ends a text file knows.  A Module is reduced here to its name and its   *)
(* docstring, the two fields that hold free text.                          *)
(***************************************************************************)
MaxModules == 2

LF == "LF"

CR == "CR"

QUOTE == "quote"

BACKSLASH == "backslash"

\* the texts a name or a docstring is made of
ModuleNames == {<<"a">>, <<"n">>}

DocstringTexts ==
  {<<"a">>, <<LF>>, <<"a", LF, "a">>, <<BACKSLASH, "n">>, <<QUOTE>>, <<"a", CR>>}

StreamModule(name, docstring) == [name |-> name, docstring |-> docstring]

StreamModules ==
  {StreamModule(n, d) : n \in ModuleNames, d \in {NoValue} \cup {Some(x) : x \in DocstringTexts}}

\* databind.json.dump(module, Module): a docstring of None is not written
module_document(m) ==
  IF m.docstring = NoValue THEN [name |-> m.name]
  ELSE [name |-> m.name, docstring |-> Value(m.docstring)]

\* databind.json.load(data, Module)
document_module(doc) ==
  StreamModule(doc.name, IF "docstring" \in DOMAIN doc THEN Some(doc.docstring) ELSE NoValue)

\* a character written as it is, whatever it is
json_escape_nothing(c) == <<c>>

\* json.dump: a character of a string as it is written
json_escape(c) ==
  IF c = LF THEN <<BACKSLASH, "n">>
  ELSE IF c = CR THEN <<BACKSLASH, "r">>
  ELSE IF c \in {QUOTE, BACKSLASH} THEN <<BACKSLASH, c>>
  ELSE <<c>>

json_string(text) ==
  <<QUOTE>> \o Concat([i \in 1..Len(text) |-> json_escape(text[i])]) \o <<QUOTE>>

\* json.dump(data, target) without indent: the text of one document
json_dump(doc) ==
  <<"{">> \o json_string(doc.name)
    \o (IF "docstring" \in DOMAIN doc THEN <<",">> \o json_string(doc.docstring) ELSE <<>>)
    \o <<"}">>

JsonError == [ok |-> FALSE]

\* json: the string that opens before position i of s, read up to its
\* closing quote
RECURSIVE json_scan_string(_, _, _)
json_scan_string(s, i, acc) ==
  IF i > Len(s) THEN JsonError
  ELSE IF s[i] = QUOTE THEN [ok |-> TRUE, value |-> acc, next |-> i + 1]
  ELSE IF s[i] \in {LF, CR} THEN JsonError
  ELSE IF s[i] = BACKSLASH
    THEN IF i + 1 > Len(s) THEN JsonError
         ELSE IF s[i + 1] = "n" THEN json_scan_string(s, i + 2, acc \o <<LF>>)
         ELSE IF s[i + 1] = "r" THEN json_scan_string(s, i + 2, acc \o <<CR>>)
         ELSE IF s[i + 1] \in {QUOTE, BACKSLASH}
           THEN json_scan_string(s, i + 2, acc \o <<s[i + 1]>>)
         ELSE JsonError
  ELSE json_scan_string(s, i + 1, acc \o <<s[i]>>)

\* the text without the white space at its end
RECURSIVE rstrip(_)
rstrip(s) ==
  IF s # <<>> /\ s[Len(s)] \in {LF, CR} THEN rstrip(SubSeq(s, 1, Len(s) - 1)) ELSE s

\* json.load(io.StringIO(line)): the document a line holds
json_load(line) ==
  LET s == rstrip(line)
  IN IF Len(s) < 2 \/ s[1] # "{" \/ s[2] # QUOTE THEN JsonError
     ELSE LET name == json_scan_string(s, 3, <<>>)
          IN IF ~name.ok \/ name.next > Len(s) THEN JsonError
             ELSE IF s[name.next] = "}"
               THEN IF name.next = Len(s) THEN [ok |-> TRUE, data |-> [name |-> name.value]]
                    ELSE JsonError
             ELSE IF s[name.next] # "," \/ name.next + 1 > Len(s) \/ s[name.next + 1] # QUOTE
               THEN JsonError
             ELSE LET doc == json_scan_string(s, name.next + 2, <<>>)
                  IN IF doc.ok /\ doc.next = Len(s) /\ s[doc.next] = "}"
                     THEN [ok |-> TRUE, data |-> [name |-> name.value, docstring |-> doc.value]]
                     ELSE JsonError

\* iteration over a text file: the line that starts at position i, with its
\* line end
RECURSIVE readline(_, _)
readline(s, i) ==
  IF i > Len(s) THEN <<>>
  ELSE IF s[i] \in {LF, CR} THEN <<s[i]>>
  ELSE <<s[i]>> \o readline(s, i + 1)

\* dump_module(module, target) for the next module of the list
DumpToStream ==
  /\ tpc = "dump"
  /\ tpos <= Len(tmodules)
  /\ tstream' = tstream \o json_dump(module_document(tmodules[tpos])) \o <<LF>>
  /\ tpos' = tpos + 1
  /\ UNCHANGED <<tmodules, tcursor, tloaded, tpc>>
  /\ UNCHANGED restOfStream

\* load_modules(fp) on the text that was written
OpenStream ==
  /\ tpc = "dump"
  /\ tpos > Len(tmodules)
  /\ tpc' = "load"
  /\ tcursor' = 1
  /\ UNCHANGED <<tmodules, tstream, tpos, tloaded>>
  /\ UNCHANGED restOfStream

\* one round of the loop: a line is read, loaded and its Module yielded
LoadNextModule ==
  /\ tpc = "load"
  /\ tcursor <= Len(tstream)
  /\ LET line == readline(tstream, tcursor)
         data == json_load(line)
     IN IF data.ok
        THEN /\ tloaded' = Append(tloaded, document_module(data.data))
             /\ tcursor' = tcursor + Len(line)
             /\ tpc' = tpc
        ELSE /\ tpc' = "raised"
             /\ UNCHANGED <<tloaded, tcursor>>
  /\ UNCHANGED <<tmodules, tstream, tpos>>
  /\ UNCHANGED restOfStream

\* the text is exhausted: the generator returns
LoadModulesReturn ==
  /\ tpc = "load"
  /\ tcursor > Len(tstream)
  /\ tpc' = "done"
  /\ UNCHANGED <<tmodules, tstream, tpos, tcursor, tloaded>>
  /\ UNCHANGED restOfStream

InitStream ==
  /\ \E n \in 1..MaxModules : tmodules \in [1..n -> StreamModules]
  /\ tstream = <<>>
  /\ tpos = 1
  /\ tcursor = 1
  /\ tloaded = <<>>
  /\ tpc = "dump"
  /\ TreeIdle
  /\ FilterIdle
  /\ ParamsIdle
  /\ ClassIdle
  /\ SerialIdle
  /\ ImportIdle
  /\ DocIdle
  /\ BatchIdle
  /\ WeakIdle
  /\ ThreadsIdle
  /\ BlockIdle

NextStream ==
  \/ DumpToStream
  \/ OpenStream
  \/ LoadNextModule
  \/ LoadModulesReturn

SpecStream == InitStream /\ [][NextStream]_vars

(***************************************************************************)
(* Properties of the stream of modules (SpecStream)                        *)
(***************************************************************************)
\* the number of line ends in a text
RECURSIVE LineEnds(_)
LineEnds(s) ==
  IF s = <<>> THEN 0 ELSE (IF Head(s) \in {LF, CR} THEN 1 ELSE 0) + LineEnds(Tail(s))

\* C21: every dump_module to a stream adds one document without a line end
\* in it and one line end after it, and load_modules on the text of the
\* dumps of M1..Mn yields n Modules, equal to M1..Mn in the same order.
C21_StreamRoundTrip ==
  /\ LineEnds(tstream) = tpos - 1
  /\ tpos > 1 => tstream[Len(tstream)] = LF
  /\ tpc # "raised"
  /\ Len(tloaded) <= Len(tmodules)
  /\ \A i \in 1..Len(tloaded) : tloaded[i] = tmodules[i]
  /\ tpc = "done" => tloaded = tmodules

\* two modules were dumped and loaded again; the docstring of the first one
\* has a line end in it, the second one has no docstring
C21_Witness ==
  /\ tpc = "done"
  /\ Len(tmodules) = 2
  /\ tmodules[1].docstring = Some(<<"a", LF, "a">>)
  /\ tmodules[2].docstring = NoValue
  /\ tloaded = tmodules

(***************************************************************************)
(* Two parse calls on two threads: Parser.parse and Parser.location_from,  *)
(* src/docspec-python/src/docspec_python/parser.py lines 257-282, 681-688, *)
(* called on a Parser of their own (parse_python_module,                   *)
(* src/docspec-python/src/docspec_python/__init__.py lines 109-133) or on  *)
(* one Parser both threads hold.  A step is one read or write of an        *)
(* attribute of the Parser.                                                *)
(***************************************************************************)
Threads == {1, 2}

\* the largest number of declarations in a source file
MaxDecls == 2

\* the file each thread parses
Filenames == <<"a.py", "b.py">>

\* no attribute `filename` on a Parser that never ran parse
NoFilename == "unset"

\* os.path.splitext(os.path.basename(filename))[0]
module_name_of(filename) ==
  IF filename = "a.py" THEN "a" ELSE IF filename = "b.py" THEN "b" ELSE filename

\* Parser.location_from: the Location of a node, its filename read from the
\* Parser
location_from(filename_of, p, lineno) == [filename |-> filename_of[p], lineno |-> lineno]

\* the Parser a thread calls parse on
parser_of(shared, t) == IF shared THEN 1 ELSE t

\* parse: self.filename = filename
ParseSetFilename(t) ==
  /\ hpc[t] = "call"
  /\ hfilename' = [hfilename EXCEPT ![hparser[t]] = Filenames[t]]
  /\ hpc' = [hpc EXCEPT ![t] = "module"]
  /\ UNCHANGED <<hparser, hsize, hmodule>>
  /\ UNCHANGED restOfThreads

\* parse: module = Module(name=module_name, location=self.location_from(ast),
\* members=[])
ParseMakeModule(t) ==
  /\ hpc[t] = "module"
  /\ hmodule' = [hmodule EXCEPT ![t] =
                   [name |-> module_name_of(Filenames[t]),
                    location |-> location_from(hfilename, hparser[t], 0),
                    members |-> <<>>]]
  /\ hpc' = [hpc EXCEPT ![t] = "members"]
  /\ UNCHANGED <<hparser, hsize, hfilename>>
  /\ UNCHANGED restOfThreads

\* parse: one round of the loop over ast.children; the member gets its
\* Location from location_from
ParseAppendMember(t) ==
  /\ hpc[t] = "members"
  /\ Len(hmodule[t].members) < hsize[t]
  /\ hmodule' = [hmodule EXCEPT ![t].members =
                   Append(@, [name |-> "x",
                              location |-> location_from(hfilename, hparser[t], Len(@) + 1)])]
  /\ UNCHANGED <<hparser, hsize, hfilename, hpc>>
  /\ UNCHANGED restOfThreads

\* parse: module.sync_hierarchy(); return module
ParseReturnModule(t) ==
  /\ hpc[t] = "members"
  /\ Len(hmodule[t].members) = hsize[t]
  /\ hpc' = [hpc EXCEPT ![t] = "returned"]
  /\ UNCHANGED <<hparser, hsize, hfilename, hmodule>>
  /\ UNCHANGED restOfThreads

InitThreads ==
  /\ \E shared \in BOOLEAN : hparser = [t \in Threads |-> parser_of(shared, t)]
  /\ hsize \in [Threads -> 0..MaxDecls]
  /\ hfilename = [p \in Threads |-> NoFilename]
  /\ hmodule = [t \in Threads |-> <<>>]
  /\ hpc = [t \in Threads |-> "call"]
  /\ TreeIdle
  /\ FilterIdle
  /\ ParamsIdle
  /\ ClassIdle
  /\ SerialIdle
  /\ ImportIdle
  /\ DocIdle
  /\ BatchIdle
  /\ WeakIdle
  /\ StreamIdle
  /\ BlockIdle

NextThreads ==
  \E t \in Threads :
    \/ ParseSetFilename(t)
    \/ ParseMakeModule(t)
    \/ ParseAppendMember(t)
    \/ ParseReturnModule(t)

SpecThreads == InitThreads /\ [][NextThreads]_vars

(***************************************************************************)
(* Properties of parallel parse calls (SpecThreads)                        *)
(***************************************************************************)
\* the Module the call of thread t returns when no other call runs
ModuleAlone(t) ==
  [name |-> module_name_of(Filenames[t]),
   location |-> [filename |-> Filenames[t], lineno |-> 0],
   members |-> [i \in 1..hsize[t] |->
                  [name |-> "x", location |-> [filename |-> Filenames[t], lineno |-> i]]]]

\* C23: in every interleaving of two parse calls on separate threads, the
\* Module each call returns (its name, its members and the filename of every
\* Location in it) is the Module the call returns when it runs alone.
C23_ThreadsDoNotInterfere ==
  \A t \in Threads : hpc[t] = "returned" => hmodule[t] = ModuleAlone(t)

\* the same holds for calls that run on a Parser of their own
OwnParserDoesNotInterfere ==
  \A t \in Threads :
    hpc[t] = "returned" /\ hparser[1] # hparser[2] => hmodule[t] = ModuleAlone(t)

(***************************************************************************)
(* The docstring of a block: get_docstring_from_first_node as it is called *)
(* by Parser.parse (line 266), parse_funcdef (lines 469-474) and           *)
(* parse_classdef (lines 654-655) of                                       *)
(* src/docspec-python/src/docspec_python/parser.py.                        *)
(***************************************************************************)
\* the statements after the first one: without comments
PlainStatements == {Stmt(k, <<>>, "none") : k \in StatementKinds}

\* the blocks: any first statement, plain statements after it
Blocks ==
  UNION {{b \in [1..n -> Statements] : \A i \in 2..n : b[i] \in PlainStatements} :
           n \in 1..MaxStmts}

\* the forms of the body of each owner: `def f(): pass` and `class A: pass`
\* have their body on the line of the header
FormsOf(owner) == IF owner = "module" THEN {"module"} ELSE {"suite", "inline"}

\* Parser.parse, line 266
ModuleDocstring ==
  /\ kpc = "start"
  /\ kowner = "module"
  /\ kdocstring' = get_docstring_from_first_node("module", kblock, koption)
  /\ kpc' = "done"
  /\ UNCHANGED <<kowner, kform, kblock, koption>>
  /\ UNCHANGED restOfBlock

\* parse_funcdef, lines 469-474: body is the suite, or the simple_stmt when
\* there is no suite
FuncdefDocstring ==
  /\ kpc = "start"
  /\ kowner = "function"
  /\ kdocstring' = get_docstring_from_first_node(kform, kblock, koption)
  /\ kpc' = "done"
  /\ UNCHANGED <<kowner, kform, kblock, koption>>
  /\ UNCHANGED restOfBlock

\* parse_classdef, lines 654-655: the docstring is None without a suite
ClassdefDocstring ==
  /\ kpc = "start"
  /\ kowner = "class"
  /\ kdocstring' = (IF kform = "suite"
                    THEN get_docstring_from_first_node("suite", kblock, koption)
                    ELSE NoValue)
  /\ kpc' = "done"
  /\ UNCHANGED <<kowner, kform, kblock, koption>>
  /\ UNCHANGED restOfBlock

InitBlock ==
  /\ kowner \in {"module", "class", "function"}
  /\ kform \in FormsOf(kowner)
  /\ kblock \in Blocks
  /\ kform = "inline" => Len(kblock) = 1 /\ kblock[1].above = <<>>
  /\ koption \in BOOLEAN
  /\ kdocstring = <<>>
  /\ kpc = "start"
  /\ TreeIdle
  /\ FilterIdle
  /\ ParamsIdle
  /\ ClassIdle
  /\ SerialIdle
  /\ ImportIdle
  /\ DocIdle
  /\ BatchIdle
  /\ WeakIdle
  /\ StreamIdle
  /\ ThreadsIdle

NextBlock ==
  \/ ModuleDocstring
  \/ FuncdefDocstring
  \/ ClassdefDocstring

SpecBlock == InitBlock /\ [][NextBlock]_vars

(***************************************************************************)
(* Properties of the docstring of a block (SpecBlock)                      *)
(***************************************************************************)
\* the docstring is made of comment lines
FromComments(docstring) ==
  docstring # NoValue /\ \E piece \in Range(Value(docstring)) : piece.src = "comment"

\* C24: a block whose first statement is a bare string literal has that
\* string as its docstring, whatever comment lines stand before it; comment
\* lines make the docstring of a block only when the option
\* treat_singleline_comment_blocks_as_docstrings is enabled and the first
\* statement is not a string literal; with the option disabled a block
\* without such a string literal has no docstring.
C24_BlockDocstring ==
  kpc = "done" =>
    /\ kblock[1].kind = "string" => kdocstring = StringDocstring(1)
    /\ FromComments(kdocstring) => koption /\ kblock[1].kind # "string"
    /\ ~koption /\ kblock[1].kind # "string" => kdocstring = NoValue

\* the same for the blocks that are not written on the line of their header
BlockDocstringOfSuites ==
  kform # "inline" => C24_BlockDocstring

====
